---- MODULE Spec2Model ----
(***************************************************************************)
(* p-load: Pololu USB Bootloader Utility (src/src/p-load.c).               *)
(*                                                                         *)
(* The model follows main() and run(): the command line is read token by   *)
(* token by parseArgs, then waitForBootloaderIfNeeded, actionsPrepare,     *)
(* actionsExecute and restartBootloaderIfNeeded run in that order, and     *)
(* main() cleans up.  The globals of p-load.c are the variables            *)
(* desiredSerialNumber, waitForBootloaderFlag, restartBootloaderFlag,      *)
(* bootloaderList and bootloaderHandle.                                    *)
(*                                                                         *)
(* The action queue (actions.h), the bootloader library (ploader.h) and    *)
(* the argument reader (arg_reader.h) are not part of p-load.c; they are   *)
(* modelled at their interface.  Every call into them that can fail is a   *)
(* failure point: a step draws the name of the call that fails (or "none") *)
(* and every handler returns at its first failing call, as the code does.  *)
(***************************************************************************)
EXTENDS Integers, Sequences, FiniteSets, TLC

(***************************************************************************)
(* Bounds of the model.                                                    *)
(***************************************************************************)
\* Largest number of command-line tokens read by the argument reader.
MaxArgs == 3
\* Number of bootloaders that can be attached to the computer.
MaxDevices == 2
\* The most data bytes a HEX file of the round trip holds.
MaxImageBytes == 2

(***************************************************************************)
(* Program constants.                                                      *)
(***************************************************************************)
\* difftime(time(NULL), waitStartTime) > 10
WAIT_SECONDS == 10
\* usleep(100000) / Sleep(100): the poll interval, in milliseconds.
POLL_MS == 100
\* One clock tick of the model is one poll interval.
TicksPerSecond == 1000 \div POLL_MS

\* A NULL pointer (to a string, an action's data, a handle).
NULL == "NULL"

\* Exit codes.  0 is EXIT_SUCCESS; the three errors are the ERROR_ codes.
EXIT_SUCCESS == "EXIT_SUCCESS"
ERROR_BAD_ARGS == "ERROR_BAD_ARGS"
ERROR_BOOTLOADER_NOT_FOUND == "ERROR_BOOTLOADER_NOT_FOUND"
ERROR_OPERATION_FAILED == "ERROR_OPERATION_FAILED"
ExitCodes == {EXIT_SUCCESS, ERROR_BAD_ARGS, ERROR_BOOTLOADER_NOT_FOUND,
              ERROR_OPERATION_FAILED}

\* A non-zero PLOADER_RESULT: a value of the library's own result
\* enumeration, which is not an ExitCode.
PLOADER_ERROR == "PLOADER_RESULT_ERROR"

(***************************************************************************)
(* The devices and the command line.                                       *)
(***************************************************************************)
Devices == 1..MaxDevices
\* The serial number of each device.
SerialNumbers == <<"S1", "S2", "S3", "S4">>
SerialNumberOf(d) == SerialNumbers[d]

\* The options of the help text, and one option p-load does not know.
ActionOptions == {"--list", "--list-supported", "-w", "--write",
                  "--write-flash", "--write-eeprom", "--erase",
                  "--erase-flash", "--erase-eeprom", "--read",
                  "--read-flash", "--read-eeprom"}
Options == ActionOptions \cup {"-d", "--wait", "--restart", "--bogus"}
\* The tokens that follow an option taking a value: a file name, the serial
\* number of device 1, and a token that looks like an option.
ValueTokens == {"f.hex", "S1", "--list"}

(***************************************************************************)
(* The action types of p-load.c: which phases each has.  "none" is a phase *)
(* the descriptor leaves NULL.                                             *)
(***************************************************************************)
ActionType(alloc, parse, prep, exec) ==
    [allocate |-> alloc, parse |-> parse, prepare |-> prep, execute |-> exec]

actList == ActionType("none", "none", "none", "listConnectedBootloaders")
actListSupported == ActionType("none", "none", "none", "listSupportedBootloaders")
actWriteFlashAndEeprom ==
    ActionType("allocateHexFileInput", "parseHexFileInputArg", "readHexFile",
               "writeFlashAndEeprom")
actWriteFlash ==
    ActionType("allocateHexFileInput", "parseHexFileInputArg", "readHexFile",
               "writeFlash")
actWriteEeprom ==
    ActionType("allocateHexFileInput", "parseHexFileInputArg", "readHexFile",
               "writeEeprom")
actEraseFlashAndEeprom ==
    ActionType("allocateHexFileInput", "none", "clearHexFileInput",
               "writeFlashAndEeprom")
actEraseFlash ==
    ActionType("allocateHexFileInput", "none", "clearHexFileInput", "writeFlash")
actEraseEeprom ==
    ActionType("allocateHexFileInput", "none", "clearHexFileInput", "writeEeprom")
actReadFlashAndEeprom ==
    ActionType("allocateHexFileOutput", "parseHexFileOutputArg",
               "prepareHexFileOutput", "readFlashAndEeprom")
actReadFlash ==
    ActionType("allocateHexFileOutput", "parseHexFileOutputArg",
               "prepareHexFileOutput", "readFlash")
actReadEeprom ==
    ActionType("allocateHexFileOutput", "parseHexFileOutputArg",
               "prepareHexFileOutput", "readEeprom")

\* The action type parseArgs adds for an option.
ActionTypeOfOption(arg) ==
    CASE arg = "--list" -> actList
      [] arg = "--list-supported" -> actListSupported
      [] arg = "-w" -> actWriteFlashAndEeprom
      [] arg = "--write" -> actWriteFlashAndEeprom
      [] arg = "--write-flash" -> actWriteFlash
      [] arg = "--write-eeprom" -> actWriteEeprom
      [] arg = "--erase" -> actEraseFlashAndEeprom
      [] arg = "--erase-flash" -> actEraseFlash
      [] arg = "--erase-eeprom" -> actEraseEeprom
      [] arg = "--read" -> actReadFlashAndEeprom
      [] arg = "--read-flash" -> actReadFlash
      [] arg = "--read-eeprom" -> actReadEeprom

(***************************************************************************)
(* State.                                                                  *)
(***************************************************************************)
VARIABLES
    pc,                     \* where main()/run() is
    argIndex,               \* tokens the argument reader has handed out
    desiredSerialNumber,    \* global: NULL or the token after -d
    waitForBootloaderFlag,  \* global
    restartBootloaderFlag,  \* global
    bootloaderList,         \* global: [cached, devs]; cached = FALSE is NULL
    bootloaderHandle,       \* global: NoHandle is NULL, else a handle
    openHandles,            \* the library's open handles
    liveLists,              \* the library's lists created and not yet freed
    actions,                \* the action queue
    idx,                    \* the action the prepare / execute pass is at
    listI,                  \* listConnectedBootloaders: loop index i, 0 outside
    tempHandle,             \* getStatus: its local handle
    exitCode,               \* what main() returns
    connected,              \* the devices attached to the computer
    deviceMem,              \* each device's flash and EEPROM contents
    files,                  \* the HEX files: name -> set of <<address, byte>>
    elapsed,                \* ticks slept since waitStartTime was read
    startFraction,          \* ticks from the whole second to that reading
    steps,                  \* history: the steps run() has started
    stepCodes,              \* history: the codes the finished steps returned
    hist                    \* history: what the run has done so far

vars == <<pc, argIndex, desiredSerialNumber, waitForBootloaderFlag,
          restartBootloaderFlag, bootloaderList, bootloaderHandle,
          openHandles, liveLists, actions, idx, listI, tempHandle, exitCode, connected, deviceMem, files,
          elapsed, startFraction,
          steps, stepCodes, hist>>

\* bootloaderList = NULL
NoList == [cached |-> FALSE, devs |-> <<>>]

(***************************************************************************)
(* The bootloader library (ploader.h), at its interface.                   *)
(***************************************************************************)
RECURSIVE Ascending(_)
\* The elements of a set of devices as a list.
Ascending(S) ==
    IF S = {} THEN <<>>
    ELSE LET m == CHOOSE x \in S : \A y \in S : x <= y
         IN  <<m>> \o Ascending(S \ {m})

\* ploaderListCreate: a snapshot of the attached bootloaders.
ploaderListCreate(conn) == [cached |-> TRUE, devs |-> Ascending(conn)]

\* ploaderListFilterBySerialNumber: keeps the entries with that serial number.
ploaderListFilterBySerialNumber(list, serial) ==
    [list EXCEPT !.devs = SelectSeq(list.devs,
                                    LAMBDA d : SerialNumberOf(d) = serial)]

\* ploaderListSize
ploaderListSize(list) == Len(list.devs)

\* A handle is the device it was opened on and the number of the open that
\* made it.  NoHandle is the NULL handle.
NoHandle == [id |-> 0, dev |-> 0]
NewHandle(d) == [id |-> hist.opens + 1, dev |-> d]

(***************************************************************************)
(* The device session: the cached list and the cached handle.             *)
(***************************************************************************)
\* A call the step can have fail: fail names the one that does.
Fails(fail, call) == fail = call

\* Mutant of bootloaderListRequire: it discovers even when a list is cached.
bootloaderListRequireAlwaysFresh(list, fail) ==
    IF Fails(fail, "ploaderListCreate")
    THEN [code |-> PLOADER_ERROR, list |-> NoList, discovered |-> TRUE]
    ELSE IF desiredSerialNumber # NULL
    THEN IF Fails(fail, "ploaderListFilterBySerialNumber")
         THEN [code |-> ERROR_OPERATION_FAILED, list |-> NoList,
               discovered |-> TRUE]
         ELSE [code |-> EXIT_SUCCESS,
               list |-> ploaderListFilterBySerialNumber(
                            ploaderListCreate(connected), desiredSerialNumber),
               discovered |-> TRUE]
    ELSE [code |-> EXIT_SUCCESS, list |-> ploaderListCreate(connected),
          discovered |-> TRUE]

\* Mutant of bootloaderListRequire: the list is not filtered by the serial
\* number.
bootloaderListRequireUnfiltered(list, fail) ==
    IF list.cached
    THEN [code |-> EXIT_SUCCESS, list |-> list, discovered |-> FALSE]
    ELSE IF Fails(fail, "ploaderListCreate")
    THEN [code |-> PLOADER_ERROR, list |-> NoList, discovered |-> TRUE]
    ELSE [code |-> EXIT_SUCCESS, list |-> ploaderListCreate(connected),
          discovered |-> TRUE]

\* Mutant of bootloaderListRequire: a discovery that finds no bootloader is
\* a failure and caches nothing.
bootloaderListRequireEmptyIsError(list, fail) ==
    LET found == IF desiredSerialNumber # NULL
                 THEN ploaderListFilterBySerialNumber(
                          ploaderListCreate(connected), desiredSerialNumber)
                 ELSE ploaderListCreate(connected)
    IN  IF list.cached
        THEN [code |-> EXIT_SUCCESS, list |-> list, discovered |-> FALSE]
        ELSE IF Fails(fail, "ploaderListCreate")
        THEN [code |-> PLOADER_ERROR, list |-> NoList, discovered |-> TRUE]
        ELSE IF desiredSerialNumber # NULL
                /\ Fails(fail, "ploaderListFilterBySerialNumber")
        THEN [code |-> ERROR_OPERATION_FAILED, list |-> NoList,
              discovered |-> TRUE]
        ELSE IF ploaderListSize(found) = 0
        THEN [code |-> ERROR_BOOTLOADER_NOT_FOUND, list |-> NoList,
              discovered |-> TRUE]
        ELSE [code |-> EXIT_SUCCESS, list |-> found, discovered |-> TRUE]

\* Mutant of bootloaderListRequire: after a failed filtering the list is
\* neither freed nor set to NULL.
bootloaderListRequireKeepsUnfiltered(list, fail) ==
    IF list.cached
    THEN [code |-> EXIT_SUCCESS, list |-> list, discovered |-> FALSE]
    ELSE IF Fails(fail, "ploaderListCreate")
    THEN [code |-> PLOADER_ERROR, list |-> NoList, discovered |-> TRUE]
    ELSE IF desiredSerialNumber # NULL
    THEN IF Fails(fail, "ploaderListFilterBySerialNumber")
         THEN [code |-> ERROR_OPERATION_FAILED,
               list |-> ploaderListCreate(connected), discovered |-> TRUE]
         ELSE [code |-> EXIT_SUCCESS,
               list |-> ploaderListFilterBySerialNumber(
                            ploaderListCreate(connected), desiredSerialNumber),
               discovered |-> TRUE]
    ELSE [code |-> EXIT_SUCCESS, list |-> ploaderListCreate(connected),
          discovered |-> TRUE]

bootloaderListRequire(list, fail) ==
    IF list.cached
    THEN [code |-> EXIT_SUCCESS, list |-> list, discovered |-> FALSE]
    ELSE IF Fails(fail, "ploaderListCreate")
    THEN \* return result: the PLOADER_RESULT itself
         [code |-> PLOADER_ERROR, list |-> NoList, discovered |-> TRUE]
    ELSE IF desiredSerialNumber # NULL
    THEN IF Fails(fail, "ploaderListFilterBySerialNumber")
         THEN [code |-> ERROR_OPERATION_FAILED, list |-> NoList,
               discovered |-> TRUE]
         ELSE [code |-> EXIT_SUCCESS,
               list |-> ploaderListFilterBySerialNumber(
                            ploaderListCreate(connected), desiredSerialNumber),
               discovered |-> TRUE]
    ELSE [code |-> EXIT_SUCCESS, list |-> ploaderListCreate(connected),
          discovered |-> TRUE]

\* A message: its severity and text, and the serial number it names.
NoMessage == [severity |-> "none", text |-> "none", serial |-> NULL]
Message(sev, text, serial) == [severity |-> sev, text |-> text, serial |-> serial]

\* Mutant of bootloaderNotFoundError: it returns the code of a failed
\* operation.
bootloaderNotFoundErrorAsFailure ==
    [code |-> ERROR_OPERATION_FAILED,
     msg |-> Message("error", "No bootloader found", desiredSerialNumber)]

bootloaderNotFoundError ==
    [code |-> ERROR_BOOTLOADER_NOT_FOUND,
     msg |-> Message("error", "No bootloader found", desiredSerialNumber)]

\* Mutant of bootloaderNotFoundInfo: the message is printed as an error.
bootloaderNotFoundInfoAsError ==
    [code |-> ERROR_BOOTLOADER_NOT_FOUND,
     msg |-> Message("error", "No bootloader found", desiredSerialNumber)]

bootloaderNotFoundInfo ==
    [code |-> ERROR_BOOTLOADER_NOT_FOUND,
     msg |-> Message("info", "No bootloader found", desiredSerialNumber)]

\* printBootloaderInfo: TRUE when the name and serial number are displayed.
printBootloaderInfo(fail) == ~Fails(fail, "printBootloaderInfo")

\* The result of bootloaderHandleRequire: the exit code, the two globals,
\* whether a discovery ran, the handle opened (NoHandle if none), whether the
\* identity was displayed, and the message printed.
HandleResult(code, handle, list, discovered, opened, shown, msg) ==
    [code |-> code, handle |-> handle, list |-> list,
     discovered |-> discovered, opened |-> opened, shown |-> shown,
     msg |-> msg]

\* Mutant of bootloaderHandleRequire: with several bootloaders in the list it
\* opens the first one.
bootloaderHandleRequireOpensFirst(handle, list, fail) ==
    IF handle # NoHandle
    THEN HandleResult(EXIT_SUCCESS, handle, list, FALSE, NoHandle, FALSE, NoMessage)
    ELSE LET l == bootloaderListRequire(list, fail)
             size == ploaderListSize(l.list)
         IN  IF l.code # EXIT_SUCCESS
             THEN HandleResult(l.code, handle, l.list, l.discovered, NoHandle,
                               FALSE, NoMessage)
             ELSE IF size = 0
             THEN HandleResult(bootloaderNotFoundError.code, handle, l.list,
                               l.discovered, NoHandle, FALSE,
                               bootloaderNotFoundError.msg)
             ELSE IF Fails(fail, "ploaderOpenFromList")
             THEN HandleResult(ERROR_OPERATION_FAILED, handle, l.list,
                               l.discovered, NoHandle, FALSE, NoMessage)
             ELSE HandleResult(EXIT_SUCCESS, NewHandle(l.list.devs[1]), l.list,
                               l.discovered, NewHandle(l.list.devs[1]),
                               printBootloaderInfo(fail), NoMessage)

\* Mutant of bootloaderHandleRequire: the identity is displayed on every
\* call, also when the handle is already open.
bootloaderHandleRequireAlwaysShows(handle, list, fail) ==
    IF handle # NoHandle
    THEN HandleResult(EXIT_SUCCESS, handle, list, FALSE, NoHandle,
                      printBootloaderInfo(fail), NoMessage)
    ELSE LET l == bootloaderListRequire(list, fail)
             size == ploaderListSize(l.list)
         IN  IF l.code # EXIT_SUCCESS
             THEN HandleResult(l.code, handle, l.list, l.discovered, NoHandle,
                               FALSE, NoMessage)
             ELSE IF size = 0
             THEN HandleResult(bootloaderNotFoundError.code, handle, l.list,
                               l.discovered, NoHandle, FALSE,
                               bootloaderNotFoundError.msg)
             ELSE IF size > 1
             THEN HandleResult(ERROR_OPERATION_FAILED, handle, l.list,
                               l.discovered, NoHandle, FALSE,
                               Message("error", "multiple qualifying bootloaders",
                                       NULL))
             ELSE IF Fails(fail, "ploaderOpenFromList")
             THEN HandleResult(ERROR_OPERATION_FAILED, handle, l.list,
                               l.discovered, NoHandle, FALSE, NoMessage)
             ELSE HandleResult(EXIT_SUCCESS, NewHandle(l.list.devs[1]), l.list,
                               l.discovered, NewHandle(l.list.devs[1]),
                               printBootloaderInfo(fail), NoMessage)

bootloaderHandleRequire(handle, list, fail) ==
    IF handle # NoHandle
    THEN HandleResult(EXIT_SUCCESS, handle, list, FALSE, NoHandle, FALSE, NoMessage)
    ELSE LET l == bootloaderListRequire(list, fail)
             size == ploaderListSize(l.list)
         IN  IF l.code # EXIT_SUCCESS
             THEN HandleResult(l.code, handle, l.list, l.discovered, NoHandle,
                               FALSE, NoMessage)
             ELSE IF size = 0
             THEN HandleResult(bootloaderNotFoundError.code, handle, l.list,
                               l.discovered, NoHandle, FALSE,
                               bootloaderNotFoundError.msg)
             ELSE IF size > 1
             THEN HandleResult(ERROR_OPERATION_FAILED, handle, l.list,
                               l.discovered, NoHandle, FALSE,
                               Message("error", "multiple qualifying bootloaders",
                                       NULL))
             ELSE IF Fails(fail, "ploaderOpenFromList")
             THEN HandleResult(ERROR_OPERATION_FAILED, handle, l.list,
                               l.discovered, NoHandle, FALSE, NoMessage)
             ELSE HandleResult(EXIT_SUCCESS, NewHandle(l.list.devs[1]), l.list,
                               l.discovered, NewHandle(l.list.devs[1]),
                               printBootloaderInfo(fail), NoMessage)

(***************************************************************************)
(* Memory regions and HEX files.                                           *)
(***************************************************************************)
\* ploaderCreateInfo: what a bootloader reports about itself.  The EEPROM's
\* address inside a HEX file lies outside the application's flash.
ploaderInfo(d) ==
    [name |-> "bootloader", serialNumber |-> SerialNumberOf(d),
     appAddress |-> 2, appSize |-> 2,
     eepromAddressHexFile |-> 8, eepromSize |-> 1]

\* memset(buffer, 0xFF, size)
Filled(size) == [i \in 1..size |-> 255]

\* A NULL image buffer; the regions of a bootloader are never empty.
NullBuffer == <<>>

\* An ihxMemory: a buffer and the addresses [startAddress, endAddress) it holds.
ihxMemory(buffer, startAddress, endAddress) ==
    [image |-> buffer, startAddress |-> startAddress, endAddress |-> endAddress]

\* ihxRead into one memory: every data byte of the file whose address lies
\* in the memory's range is stored at its offset; the rest is left alone.
ihxReadMemory(contents, m) ==
    [i \in 1..Len(m.image) |->
        IF \E rec \in contents : rec[1] = m.startAddress + i - 1
        THEN (CHOOSE rec \in contents : rec[1] = m.startAddress + i - 1)[2]
        ELSE m.image[i]]

\* ihxWrite of one memory: one data byte per address of its range.
ihxWriteMemory(m) ==
    {<<m.startAddress + i - 1, m.image[i]>> : i \in 1..Len(m.image)}

\* What the HEX files hold when p-load starts: a byte for the first address
\* of flash, none for the second, and a byte for the EEPROM.
InitialFile == {<<2, 17>>, <<8, 34>>}

(***************************************************************************)
(* The phases of the actions.  Each returns a PhaseResult: the exit code,  *)
(* the action's data, the two session globals, and what it did.            *)
(***************************************************************************)
\* An entry of the action queue: its type and the data the type's allocate
\* made (HexFileInput: fileName, flash, eeprom; HexFileOutput: fileName, file).
NewAction(type) ==
    [type |-> type, data |-> FALSE, fileName |-> NULL,
     flash |-> NullBuffer, eeprom |-> NullBuffer, file |-> FALSE,
     prepared |-> FALSE, executed |-> FALSE, ops |-> <<>>]

PhaseResult(code, a, h, ops, mem, fs) ==
    [code |-> code, action |-> a, handle |-> h.handle, list |-> h.list,
     discovered |-> h.discovered, opened |-> h.opened, shown |-> h.shown,
     msg |-> h.msg, ops |-> ops, mem |-> mem, files |-> fs]

\* A phase that does not touch the session.
NoSession(handle, list) ==
    HandleResult(EXIT_SUCCESS, handle, list, FALSE, NoHandle, FALSE, NoMessage)

\* A device operation, and whether the handle it was issued on was open.
Op(name, handle, open) == [op |-> name, open |-> handle \in open]

\* Mutant of readHexFile: the buffers are not set to 0xFF before the file
\* is read into them.
readHexFileNoMemset(a, handle, list, fail) ==
    LET h == bootloaderHandleRequire(handle, list, fail)
        open == openHandles \cup {h.opened}
        pInfo == ploaderInfo(h.handle.dev)
        info == <<Op("ploaderCreateInfo", h.handle, open)>>
        flash == IF Fails(fail, "malloc(appSize)") THEN NullBuffer
                 ELSE [i \in 1..pInfo.appSize |-> 0]
        eeprom == IF Fails(fail, "malloc(eepromSize)") THEN NullBuffer
                  ELSE [i \in 1..pInfo.eepromSize |-> 0]
        memories == <<ihxMemory(flash, pInfo.appAddress,
                                pInfo.appAddress + pInfo.appSize),
                      ihxMemory(eeprom, pInfo.eepromAddressHexFile,
                                pInfo.eepromAddressHexFile + pInfo.eepromSize)>>
    IN  IF h.code # EXIT_SUCCESS
        THEN PhaseResult(h.code, a, h, <<>>, deviceMem, files)
        ELSE IF Fails(fail, "ploaderCreateInfo")
        THEN PhaseResult(ERROR_OPERATION_FAILED, a, h, info, deviceMem, files)
        ELSE IF flash = NullBuffer \/ eeprom = NullBuffer
        THEN PhaseResult(ERROR_OPERATION_FAILED,
                         [a EXCEPT !.flash = flash, !.eeprom = eeprom],
                         h, info, deviceMem, files)
        ELSE IF Fails(fail, "fopen") \/ Fails(fail, "ihxRead")
        THEN PhaseResult(ERROR_OPERATION_FAILED,
                         [a EXCEPT !.flash = flash, !.eeprom = eeprom],
                         h, info, deviceMem, files)
        ELSE PhaseResult(EXIT_SUCCESS,
                         [a EXCEPT !.flash = ihxReadMemory(files[a.fileName],
                                                           memories[1]),
                                   !.eeprom = ihxReadMemory(files[a.fileName],
                                                            memories[2])],
                         h, info, deviceMem, files)

readHexFile(a, handle, list, fail) ==
    LET h == bootloaderHandleRequire(handle, list, fail)
        open == openHandles \cup {h.opened}
        pInfo == ploaderInfo(h.handle.dev)
        info == <<Op("ploaderCreateInfo", h.handle, open)>>
        flash == IF Fails(fail, "malloc(appSize)") THEN NullBuffer
                 ELSE Filled(pInfo.appSize)
        eeprom == IF Fails(fail, "malloc(eepromSize)") THEN NullBuffer
                  ELSE Filled(pInfo.eepromSize)
        memories == <<ihxMemory(flash, pInfo.appAddress,
                                pInfo.appAddress + pInfo.appSize),
                      ihxMemory(eeprom, pInfo.eepromAddressHexFile,
                                pInfo.eepromAddressHexFile + pInfo.eepromSize)>>
    IN  IF h.code # EXIT_SUCCESS
        THEN PhaseResult(h.code, a, h, <<>>, deviceMem, files)
        ELSE IF Fails(fail, "ploaderCreateInfo")
        THEN PhaseResult(ERROR_OPERATION_FAILED, a, h, info, deviceMem, files)
        ELSE IF flash = NullBuffer \/ eeprom = NullBuffer
        THEN PhaseResult(ERROR_OPERATION_FAILED,
                         [a EXCEPT !.flash = flash, !.eeprom = eeprom],
                         h, info, deviceMem, files)
        ELSE IF Fails(fail, "fopen") \/ Fails(fail, "ihxRead")
        THEN PhaseResult(ERROR_OPERATION_FAILED,
                         [a EXCEPT !.flash = flash, !.eeprom = eeprom],
                         h, info, deviceMem, files)
        ELSE PhaseResult(EXIT_SUCCESS,
                         [a EXCEPT !.flash = ihxReadMemory(files[a.fileName],
                                                           memories[1]),
                                   !.eeprom = ihxReadMemory(files[a.fileName],
                                                            memories[2])],
                         h, info, deviceMem, files)

\* Mutant of clearHexFileInput: the two buffers get each other's size.
clearHexFileInputSizesSwapped(a, handle, list, fail) ==
    LET h == bootloaderHandleRequire(handle, list, fail)
        open == openHandles \cup {h.opened}
        pInfo == ploaderInfo(h.handle.dev)
        info == <<Op("ploaderCreateInfo", h.handle, open)>>
        flash == IF Fails(fail, "malloc(appSize)") THEN NullBuffer
                 ELSE Filled(pInfo.eepromSize)
        eeprom == IF Fails(fail, "malloc(eepromSize)") THEN NullBuffer
                  ELSE Filled(pInfo.appSize)
    IN  IF h.code # EXIT_SUCCESS
        THEN PhaseResult(h.code, a, h, <<>>, deviceMem, files)
        ELSE IF Fails(fail, "ploaderCreateInfo")
        THEN PhaseResult(ERROR_OPERATION_FAILED, a, h, info, deviceMem, files)
        ELSE IF flash = NullBuffer \/ eeprom = NullBuffer
        THEN PhaseResult(ERROR_OPERATION_FAILED,
                         [a EXCEPT !.flash = flash, !.eeprom = eeprom],
                         h, info, deviceMem, files)
        ELSE PhaseResult(EXIT_SUCCESS,
                         [a EXCEPT !.flash = flash, !.eeprom = eeprom],
                         h, info, deviceMem, files)

clearHexFileInput(a, handle, list, fail) ==
    LET h == bootloaderHandleRequire(handle, list, fail)
        open == openHandles \cup {h.opened}
        pInfo == ploaderInfo(h.handle.dev)
        info == <<Op("ploaderCreateInfo", h.handle, open)>>
        flash == IF Fails(fail, "malloc(appSize)") THEN NullBuffer
                 ELSE Filled(pInfo.appSize)
        eeprom == IF Fails(fail, "malloc(eepromSize)") THEN NullBuffer
                  ELSE Filled(pInfo.eepromSize)
    IN  IF h.code # EXIT_SUCCESS
        THEN PhaseResult(h.code, a, h, <<>>, deviceMem, files)
        ELSE IF Fails(fail, "ploaderCreateInfo")
        THEN PhaseResult(ERROR_OPERATION_FAILED, a, h, info, deviceMem, files)
        ELSE IF flash = NullBuffer \/ eeprom = NullBuffer
        THEN PhaseResult(ERROR_OPERATION_FAILED,
                         [a EXCEPT !.flash = flash, !.eeprom = eeprom],
                         h, info, deviceMem, files)
        ELSE PhaseResult(EXIT_SUCCESS,
                         [a EXCEPT !.flash = flash, !.eeprom = eeprom],
                         h, info, deviceMem, files)

\* Mutant of prepareHexFileOutput: the bootloader is required before the
\* file is opened, as the prepare phases of the write and erase actions do.
prepareHexFileOutputRequiresHandle(a, handle, list, fail) ==
    LET h == bootloaderHandleRequire(handle, list, fail)
    IN  IF h.code # EXIT_SUCCESS
        THEN PhaseResult(h.code, a, h, <<>>, deviceMem, files)
        ELSE IF Fails(fail, "fopen")
        THEN PhaseResult(ERROR_OPERATION_FAILED, a, h, <<>>, deviceMem, files)
        ELSE PhaseResult(EXIT_SUCCESS, [a EXCEPT !.file = TRUE], h, <<>>,
                         deviceMem, [files EXCEPT ![a.fileName] = {}])

prepareHexFileOutput(a, handle, list, fail) ==
    IF Fails(fail, "fopen")
    THEN PhaseResult(ERROR_OPERATION_FAILED, a, NoSession(handle, list), <<>>,
                     deviceMem, files)
    ELSE \* fopen(fileName, "w") truncates the file
         PhaseResult(EXIT_SUCCESS, [a EXCEPT !.file = TRUE],
                     NoSession(handle, list), <<>>, deviceMem,
                     [files EXCEPT ![a.fileName] = {}])

\* ploaderWriteFlash / ploaderWriteEeprom on the device of a handle.
ploaderWrite(mem, handle, region, image) ==
    [mem EXCEPT ![handle.dev][region] = image]

\* Mutant of writeFlashAndEeprom: the EEPROM is written before the flash.
writeFlashAndEepromEepromFirst(a, handle, list, fail) ==
    LET h == bootloaderHandleRequire(handle, list, fail)
        open == openHandles \cup {h.opened}
        wf == Op("ploaderWriteFlash", h.handle, open)
        we == Op("ploaderWriteEeprom", h.handle, open)
        mem1 == ploaderWrite(deviceMem, h.handle, "eeprom", a.eeprom)
        mem2 == ploaderWrite(mem1, h.handle, "flash", a.flash)
    IN  IF h.code # EXIT_SUCCESS
        THEN PhaseResult(h.code, a, h, <<>>, deviceMem, files)
        ELSE IF Fails(fail, "ploaderWriteEeprom")
        THEN PhaseResult(ERROR_OPERATION_FAILED, a, h, <<we>>, deviceMem, files)
        ELSE IF Fails(fail, "ploaderWriteFlash")
        THEN PhaseResult(ERROR_OPERATION_FAILED, a, h, <<we, wf>>, mem1, files)
        ELSE PhaseResult(EXIT_SUCCESS, a, h, <<we, wf>>, mem2, files)

writeFlashAndEeprom(a, handle, list, fail) ==
    LET h == bootloaderHandleRequire(handle, list, fail)
        open == openHandles \cup {h.opened}
        wf == Op("ploaderWriteFlash", h.handle, open)
        we == Op("ploaderWriteEeprom", h.handle, open)
        mem1 == ploaderWrite(deviceMem, h.handle, "flash", a.flash)
        mem2 == ploaderWrite(mem1, h.handle, "eeprom", a.eeprom)
    IN  IF h.code # EXIT_SUCCESS
        THEN PhaseResult(h.code, a, h, <<>>, deviceMem, files)
        ELSE IF Fails(fail, "ploaderWriteFlash")
        THEN PhaseResult(ERROR_OPERATION_FAILED, a, h, <<wf>>, deviceMem, files)
        ELSE IF Fails(fail, "ploaderWriteEeprom")
        THEN PhaseResult(ERROR_OPERATION_FAILED, a, h, <<wf, we>>, mem1, files)
        ELSE PhaseResult(EXIT_SUCCESS, a, h, <<wf, we>>, mem2, files)

writeFlash(a, handle, list, fail) ==
    LET h == bootloaderHandleRequire(handle, list, fail)
        open == openHandles \cup {h.opened}
        wf == Op("ploaderWriteFlash", h.handle, open)
    IN  IF h.code # EXIT_SUCCESS
        THEN PhaseResult(h.code, a, h, <<>>, deviceMem, files)
        ELSE IF Fails(fail, "ploaderWriteFlash")
        THEN PhaseResult(ERROR_OPERATION_FAILED, a, h, <<wf>>, deviceMem, files)
        ELSE PhaseResult(EXIT_SUCCESS, a, h, <<wf>>,
                         ploaderWrite(deviceMem, h.handle, "flash", a.flash),
                         files)

writeEeprom(a, handle, list, fail) ==
    LET h == bootloaderHandleRequire(handle, list, fail)
        open == openHandles \cup {h.opened}
        we == Op("ploaderWriteEeprom", h.handle, open)
    IN  IF h.code # EXIT_SUCCESS
        THEN PhaseResult(h.code, a, h, <<>>, deviceMem, files)
        ELSE IF Fails(fail, "ploaderWriteEeprom")
        THEN PhaseResult(ERROR_OPERATION_FAILED, a, h, <<we>>, deviceMem, files)
        ELSE PhaseResult(EXIT_SUCCESS, a, h, <<we>>,
                         ploaderWrite(deviceMem, h.handle, "eeprom", a.eeprom),
                         files)

readMemories(a, readFlash, readEeprom, handle, list, fail) ==
    LET h == bootloaderHandleRequire(handle, list, fail)
        open == openHandles \cup {h.opened}
        pInfo == ploaderInfo(h.handle.dev)
        info == <<Op("ploaderCreateInfo", h.handle, open)>>
        rf == IF readFlash THEN <<Op("ploaderReadFlash", h.handle, open)>>
              ELSE <<>>
        re == IF readEeprom THEN <<Op("ploaderReadEeprom", h.handle, open)>>
              ELSE <<>>
        flashMemory == ihxMemory(deviceMem[h.handle.dev].flash, pInfo.appAddress,
                                 pInfo.appAddress + pInfo.appSize)
        eepromMemory == ihxMemory(deviceMem[h.handle.dev].eeprom,
                                  pInfo.eepromAddressHexFile,
                                  pInfo.eepromAddressHexFile + pInfo.eepromSize)
        written == (IF readFlash THEN ihxWriteMemory(flashMemory) ELSE {})
                   \cup (IF readEeprom THEN ihxWriteMemory(eepromMemory) ELSE {})
    IN  IF h.code # EXIT_SUCCESS
        THEN PhaseResult(h.code, a, h, <<>>, deviceMem, files)
        ELSE IF Fails(fail, "ploaderCreateInfo")
        THEN PhaseResult(ERROR_OPERATION_FAILED, a, h, info, deviceMem, files)
        ELSE IF readFlash /\ Fails(fail, "malloc(appSize)")
        THEN PhaseResult(ERROR_OPERATION_FAILED, a, h, info, deviceMem, files)
        ELSE IF readFlash /\ Fails(fail, "ploaderReadFlash")
        THEN PhaseResult(ERROR_OPERATION_FAILED, a, h, info \o rf, deviceMem,
                         files)
        ELSE IF readEeprom /\ Fails(fail, "malloc(eepromSize)")
        THEN PhaseResult(ERROR_OPERATION_FAILED, a, h, info \o rf, deviceMem,
                         files)
        ELSE IF readEeprom /\ Fails(fail, "ploaderReadEeprom")
        THEN PhaseResult(ERROR_OPERATION_FAILED, a, h, info \o rf \o re,
                         deviceMem, files)
        ELSE IF Fails(fail, "ihxWrite")
        THEN PhaseResult(ERROR_OPERATION_FAILED, a, h, info \o rf \o re,
                         deviceMem, files)
        ELSE PhaseResult(EXIT_SUCCESS, a, h, info \o rf \o re, deviceMem,
                         [files EXCEPT ![a.fileName] = written])

readFlashAndEeprom(a, handle, list, fail) ==
    readMemories(a, TRUE, TRUE, handle, list, fail)

readFlash(a, handle, list, fail) ==
    readMemories(a, TRUE, FALSE, handle, list, fail)

readEeprom(a, handle, list, fail) ==
    readMemories(a, FALSE, TRUE, handle, list, fail)

listSupportedBootloaders(a, handle, list, fail) ==
    PhaseResult(EXIT_SUCCESS, a, NoSession(handle, list), <<>>, deviceMem, files)

(***************************************************************************)
(* The action queue (actions.h), at its interface.                         *)
(***************************************************************************)
\* The allocate and parse phases actionsAdd runs on a new entry.  next is
\* the token argReaderNext returns to the parse phase (NULL at the end).
\* Returns the exit code, the entry and whether the token was read.
actionsAdd(type, next, fail) ==
    LET a == NewAction(type)
    IN  IF type.allocate = "none"
        THEN [code |-> EXIT_SUCCESS, action |-> a, read |-> FALSE]
        ELSE IF Fails(fail, "malloc")
        THEN [code |-> ERROR_OPERATION_FAILED, action |-> a, read |-> FALSE]
        ELSE IF type.parse = "none"
        THEN [code |-> EXIT_SUCCESS, action |-> [a EXCEPT !.data = TRUE],
              read |-> FALSE]
        ELSE IF next = NULL
        THEN \* parseHexFileInputArg / parseHexFileOutputArg
             [code |-> ERROR_BAD_ARGS, action |-> [a EXCEPT !.data = TRUE],
              read |-> FALSE]
        ELSE [code |-> EXIT_SUCCESS,
              action |-> [a EXCEPT !.data = TRUE, !.fileName = next],
              read |-> TRUE]

\* The prepare phase of one entry, as actionsPrepare calls it.
prepare(a, handle, list, fail) ==
    CASE a.type.prepare = "readHexFile" -> readHexFile(a, handle, list, fail)
      [] a.type.prepare = "clearHexFileInput" ->
            clearHexFileInput(a, handle, list, fail)
      [] a.type.prepare = "prepareHexFileOutput" ->
            prepareHexFileOutput(a, handle, list, fail)
      [] a.type.prepare = "none" ->
            PhaseResult(EXIT_SUCCESS, a, NoSession(handle, list), <<>>,
                        deviceMem, files)

\* The execute phase of one entry other than the list action, as
\* actionsExecute calls it.
execute(a, handle, list, fail) ==
    CASE a.type.execute = "writeFlashAndEeprom" ->
            writeFlashAndEeprom(a, handle, list, fail)
      [] a.type.execute = "writeFlash" -> writeFlash(a, handle, list, fail)
      [] a.type.execute = "writeEeprom" -> writeEeprom(a, handle, list, fail)
      [] a.type.execute = "readFlashAndEeprom" ->
            readFlashAndEeprom(a, handle, list, fail)
      [] a.type.execute = "readFlash" -> readFlash(a, handle, list, fail)
      [] a.type.execute = "readEeprom" -> readEeprom(a, handle, list, fail)
      [] a.type.execute = "listSupportedBootloaders" ->
            listSupportedBootloaders(a, handle, list, fail)

\* freeHexFileInput / freeHexFileOutput: the entry after its data is freed.
freeFunc(a) ==
    [a EXCEPT !.data = FALSE, !.flash = NullBuffer, !.eeprom = NullBuffer,
              !.file = FALSE]

\* actionsFree: frees the data of every entry.
actionsFree(queue) == [i \in 1..Len(queue) |-> freeFunc(queue[i])]

(***************************************************************************)
(* History: what the run has done, kept to state the properties.           *)
(***************************************************************************)
NoExit == "running"

\* The start fraction not yet drawn: a value that is no fraction of a second.
Unknown == TicksPerSecond

InitialHistory ==
    [opens |-> 0,               \* handles opened so far
     openWhileOpen |-> FALSE,   \* a handle was opened while another was open
     closedOps |-> FALSE,       \* a device operation was issued on a closed handle
     discoveredIn |-> {},       \* the steps in which ploaderListCreate was called
     shown |-> 0,               \* times the bootloader's identity was displayed
     msgs |-> {},               \* the messages printed
     restarts |-> 0,            \* restart commands issued
     restartOptions |-> {},     \* the options read that ask for a restart
     restartFirst |-> FALSE,    \* --restart was read before any action
     listFrom |-> "none",       \* where the last list action got its list
     waitElapsed |-> -1,        \* ticks the wait took when it timed out
     dashD |-> 0,               \* -d options parseArgs has read
     original |-> InitialFile,  \* what the HEX file to write held at the start
     cleanup |-> FALSE]         \* main() released everything

\* The history after a phase or a session call with result r.
Recorded(h, r) ==
    [h EXCEPT !.opens = @ + (IF r.opened # NoHandle THEN 1 ELSE 0),
              !.openWhileOpen = @ \/ (r.opened # NoHandle /\ openHandles # {}),
              !.closedOps = @ \/ (\E i \in 1..Len(r.ops) : ~r.ops[i].open),
              !.discoveredIn = @ \cup (IF r.discovered THEN {pc} ELSE {}),
              !.shown = @ + (IF r.shown THEN 1 ELSE 0),
              !.msgs = (@ \cup {r.msg}) \ {NoMessage}]

\* The open handles after a call that may have opened one.
Opened(open, r) == (open \cup {r.opened}) \ {NoHandle}

\* The live lists after a call to bootloaderListRequire that went from list
\* before to list after: ploaderListCreate makes one, and the failed
\* filtering frees it again.
Lists(n, before, after) ==
    IF ~before.cached /\ after.cached THEN n + 1 ELSE n

(***************************************************************************)
(* run() and main().                                                       *)
(***************************************************************************)
\* The order in which run() calls its steps.
runSteps == <<"parseArgs", "waitForBootloaderIfNeeded", "actionsPrepare",
              "actionsExecute", "restartBootloaderIfNeeded">>

StepIndex(step) == CHOOSE i \in 1..Len(runSteps) : runSteps[i] = step

\* Mutant of runNext: run() does not look at what actionsPrepare returned.
runNextIgnoresPrepare(step, code) ==
    IF code # EXIT_SUCCESS /\ step # "actionsPrepare" THEN "return"
    ELSE IF StepIndex(step) = Len(runSteps) THEN "return"
    ELSE runSteps[StepIndex(step) + 1]

\* Mutant of runNext: run() calls actionsExecute before actionsPrepare.
runNextExecutesFirst(step, code) ==
    IF code # EXIT_SUCCESS THEN "return"
    ELSE CASE step = "parseArgs" -> "waitForBootloaderIfNeeded"
           [] step = "waitForBootloaderIfNeeded" -> "actionsExecute"
           [] step = "actionsExecute" -> "actionsPrepare"
           [] step = "actionsPrepare" -> "restartBootloaderIfNeeded"
           [] step = "restartBootloaderIfNeeded" -> "return"

\* run(): what follows a step that returned code: "return" when run()
\* returns, else the next step.
runNext(step, code) ==
    IF code # EXIT_SUCCESS THEN "return"
    ELSE IF StepIndex(step) = Len(runSteps) THEN "return"
    ELSE runSteps[StepIndex(step) + 1]

\* A step of run() returns code: run() goes on to the next step, or returns
\* the code to main().
Return(step, code) ==
    /\ stepCodes' = Append(stepCodes, code)
    /\ idx' = 1
    /\ IF runNext(step, code) = "return"
       THEN /\ pc' = "cleanup"
            /\ exitCode' = code
            /\ steps' = steps
       ELSE /\ pc' = runNext(step, code)
            /\ exitCode' = exitCode
            /\ steps' = Append(steps, runNext(step, code))

\* The step goes on.
Continue == /\ pc' = pc
            /\ UNCHANGED <<exitCode, steps, stepCodes>>

session == <<bootloaderList, bootloaderHandle, openHandles, liveLists>>
flags == <<desiredSerialNumber, waitForBootloaderFlag, restartBootloaderFlag>>
world == <<connected, deviceMem, files>>
timer == <<elapsed, startFraction>>
listLoop == <<listI, tempHandle>>

Init ==
    /\ pc = "main"
    /\ argIndex = 0
    /\ desiredSerialNumber = NULL
    /\ waitForBootloaderFlag = FALSE
    /\ restartBootloaderFlag = FALSE
    /\ bootloaderList = NoList
    /\ bootloaderHandle = NoHandle
    /\ openHandles = {}
    /\ liveLists = 0
    /\ actions = <<>>
    /\ idx = 1
    /\ listI = 0
    /\ tempHandle = NoHandle
    /\ exitCode = NoExit
    /\ connected \in SUBSET Devices
    /\ deviceMem = [d \in Devices |-> [flash |-> <<0, d>>, eeprom |-> <<d>>]]
    /\ files = [f \in ValueTokens |-> InitialFile]
    /\ elapsed = 0
    /\ startFraction = Unknown
    /\ steps = <<>>
    /\ stepCodes = <<>>
    /\ hist = InitialHistory

\* main(): with no arguments it prints the help and returns ERROR_BAD_ARGS;
\* otherwise it calls run(), whose first step is parseArgs.
Main ==
    /\ pc = "main"
    /\ \E noArguments \in BOOLEAN :
          IF noArguments
          THEN /\ pc' = "done"
               /\ exitCode' = ERROR_BAD_ARGS
               /\ steps' = steps
          ELSE /\ pc' = "parseArgs"
               /\ exitCode' = exitCode
               /\ steps' = <<"parseArgs">>
    /\ UNCHANGED <<argIndex, flags, session, actions, idx, listLoop, world,
                   timer, stepCodes, hist>>

(***************************************************************************)
(* parseArgs: one turn of its loop.  arg is what argReaderNext returns     *)
(* (NULL at the end of the command line) and next the token after it,      *)
(* which is read only by -d and by an action's parse phase.                *)
(***************************************************************************)
\* The result of one turn: code is "next" to go on with the loop, "break"
\* at the end of the arguments, else the exit code parseArgs returns.
ParseResult(code, serial, wait, restart, queue, read) ==
    [code |-> code, serial |-> serial, wait |-> wait, restart |-> restart,
     actions |-> queue, read |-> read]

\* Mutant of parseArgs: a -d after the first is skipped without an error.
parseArgsSkipsSecondSerial(arg, next, fail) ==
    LET same(code, read) ==
            ParseResult(code, desiredSerialNumber, waitForBootloaderFlag,
                        restartBootloaderFlag, actions, read)
        add == actionsAdd(ActionTypeOfOption(arg), next, fail)
        added == ParseResult(IF add.code # EXIT_SUCCESS THEN add.code ELSE "next",
                             desiredSerialNumber, waitForBootloaderFlag,
                             restartBootloaderFlag \/ arg = "-w",
                             Append(actions, add.action),
                             IF add.read THEN 2 ELSE 1)
    IN  CASE arg = NULL -> same("break", 0)
          [] arg = "-d" ->
                IF desiredSerialNumber # NULL THEN same("next", 1)
                ELSE IF next = NULL
                THEN same(ERROR_BAD_ARGS, 1)
                ELSE ParseResult("next", next, waitForBootloaderFlag,
                                 restartBootloaderFlag, actions, 2)
          [] arg = "--wait" ->
                ParseResult("next", desiredSerialNumber, TRUE,
                            restartBootloaderFlag, actions, 1)
          [] arg = "--restart" ->
                ParseResult("next", desiredSerialNumber, waitForBootloaderFlag,
                            TRUE, actions, 1)
          [] arg \in ActionOptions -> added
          [] OTHER -> same(ERROR_BAD_ARGS, 1)

parseArgs(arg, next, fail) ==
    LET same(code, read) ==
            ParseResult(code, desiredSerialNumber, waitForBootloaderFlag,
                        restartBootloaderFlag, actions, read)
        add == actionsAdd(ActionTypeOfOption(arg), next, fail)
        added == ParseResult(IF add.code # EXIT_SUCCESS THEN add.code ELSE "next",
                             desiredSerialNumber, waitForBootloaderFlag,
                             restartBootloaderFlag \/ arg = "-w",
                             Append(actions, add.action),
                             IF add.read THEN 2 ELSE 1)
    IN  CASE arg = NULL -> same("break", 0)
          [] arg = "-d" ->
                IF desiredSerialNumber # NULL THEN same(ERROR_BAD_ARGS, 1)
                ELSE IF next = NULL
                THEN same(ERROR_BAD_ARGS, 1)
                ELSE ParseResult("next", next, waitForBootloaderFlag,
                                 restartBootloaderFlag, actions, 2)
          [] arg = "--wait" ->
                ParseResult("next", desiredSerialNumber, TRUE,
                            restartBootloaderFlag, actions, 1)
          [] arg = "--restart" ->
                ParseResult("next", desiredSerialNumber, waitForBootloaderFlag,
                            TRUE, actions, 1)
          [] arg \in ActionOptions -> added
          [] OTHER -> same(ERROR_BAD_ARGS, 1)

ParseArgs ==
    /\ pc = "parseArgs"
    /\ \E arg \in Options \cup {NULL}, next \in ValueTokens \cup {NULL},
          fail \in {"none", "malloc"} :
          /\ arg = NULL => argIndex >= 1 /\ next = NULL
          /\ arg # NULL => argIndex < MaxArgs
          /\ next # NULL => argIndex + 1 < MaxArgs
          /\ \E r \in {parseArgs(arg, next, fail)} :
                 /\ argIndex' = argIndex + r.read
                 /\ desiredSerialNumber' = r.serial
                 /\ waitForBootloaderFlag' = r.wait
                 /\ restartBootloaderFlag' = r.restart
                 /\ actions' = r.actions
                 /\ hist' = [hist EXCEPT
                       !.restartOptions = @ \cup ({arg} \cap {"--restart", "-w"}),
                       !.dashD = @ + (IF arg = "-d" THEN 1 ELSE 0),
                       !.restartFirst = @ \/ (arg = "--restart" /\ actions = <<>>)]
                 /\ IF r.code = "next" THEN Continue /\ idx' = idx
                    ELSE IF r.code = "break"
                    THEN Return("parseArgs", EXIT_SUCCESS)
                    ELSE Return("parseArgs", r.code)
    /\ UNCHANGED <<session, listLoop, world, timer>>

(***************************************************************************)
(* waitForBootloaderIfNeeded.                                              *)
(*                                                                         *)
(* time(NULL) counts whole seconds.  The call reads waitStartTime at some  *)
(* moment of a second: startFraction is the number of ticks by which that  *)
(* moment lies past the whole second, and elapsed the ticks slept since.   *)
(* The fraction is an input the code never reads directly; it is drawn at  *)
(* the first poll whose outcome depends on it, and kept from then on.      *)
(***************************************************************************)
\* time(NULL), in seconds since the whole second of the start time.
time(fraction, ticks) == (fraction + ticks) \div TicksPerSecond

difftime(t1, t0) == t1 - t0

\* difftime(time(NULL), waitStartTime) > 10
waitTimedOut(fraction, ticks) ==
    difftime(time(fraction, ticks), time(fraction, 0)) > WAIT_SECONDS

\* The fractions the start time can have at a poll after so many ticks: the
\* one drawn before, any one if the poll's outcome depends on it, and
\* otherwise none yet.
Fractions(fraction, ticks) ==
    IF fraction # Unknown THEN {fraction}
    ELSE IF \E g \in 0..(TicksPerSecond - 1) : waitTimedOut(g, ticks)
    THEN 0..(TicksPerSecond - 1)
    ELSE {Unknown}

\* Mutant of waitListAfterPoll: the loop does not free the empty list.
waitListKept(l) == l

\* What the loop leaves in bootloaderList after a poll that found the list l:
\* a list with a bootloader is kept, an empty one is freed.
waitListAfterPoll(l) == IF ploaderListSize(l) > 0 THEN l ELSE NoList

\* The wait is over: the clock is tracked no longer.
WaitReturn(code) ==
    /\ Return("waitForBootloaderIfNeeded", code)
    /\ elapsed' = 0
    /\ startFraction' = Unknown

\* The call and, when the flag is set, the reading of the start time.
WaitBegin ==
    /\ pc = "waitForBootloaderIfNeeded"
    /\ IF ~waitForBootloaderFlag
       THEN Return("waitForBootloaderIfNeeded", EXIT_SUCCESS)
       ELSE /\ pc' = "waitPoll"
            /\ UNCHANGED <<exitCode, steps, stepCodes, idx>>
    /\ UNCHANGED <<argIndex, flags, session, actions, listLoop, world, timer,
                   hist>>

\* One turn of the loop: discover, return if a bootloader is there, free the
\* list, return if the time is up, sleep.
WaitPoll ==
    /\ pc = "waitPoll"
    /\ \E fail \in {"none", "ploaderListCreate",
                    "ploaderListFilterBySerialNumber"},
          fraction \in Fractions(startFraction, elapsed) :
        \E l \in {bootloaderListRequire(bootloaderList, fail)} :
        LET h == [hist EXCEPT !.discoveredIn =
                      @ \cup (IF l.discovered
                              THEN {"waitForBootloaderIfNeeded"} ELSE {})]
        IN  IF l.code # EXIT_SUCCESS
            THEN /\ WaitReturn(l.code)
                 /\ bootloaderList' = l.list
                 /\ liveLists' = Lists(liveLists, bootloaderList, l.list)
                 /\ hist' = h
            ELSE IF ploaderListSize(l.list) > 0
            THEN /\ WaitReturn(EXIT_SUCCESS)
                 /\ bootloaderList' = waitListAfterPoll(l.list)
                 /\ liveLists' = Lists(liveLists, bootloaderList,
                                       waitListAfterPoll(l.list))
                 /\ hist' = h
            ELSE /\ bootloaderList' = waitListAfterPoll(l.list)
                 /\ liveLists' = Lists(liveLists, bootloaderList,
                                       waitListAfterPoll(l.list))
                 /\ IF fraction # Unknown /\ waitTimedOut(fraction, elapsed)
                    THEN /\ WaitReturn(bootloaderNotFoundError.code)
                         /\ hist' = [h EXCEPT
                                !.waitElapsed = elapsed,
                                !.msgs = @ \cup {bootloaderNotFoundError.msg}]
                    ELSE /\ elapsed' = elapsed + 1
                         /\ startFraction' = fraction
                         /\ hist' = h
                         /\ Continue
                         /\ idx' = idx
    /\ UNCHANGED <<argIndex, flags, bootloaderHandle, openHandles, actions,
                   listLoop, world>>

\* A bootloader p-load is waiting for is plugged in.
Attach ==
    /\ pc = "waitPoll"
    /\ \E d \in Devices \ connected :
          /\ desiredSerialNumber \in {NULL, SerialNumberOf(d)}
          /\ connected' = connected \cup {d}
    /\ UNCHANGED <<pc, argIndex, flags, session, actions, idx, listLoop,
                   exitCode, deviceMem, files, timer, steps, stepCodes, hist>>

(***************************************************************************)
(* actionsPrepare and actionsExecute: one entry of the queue per step.     *)
(***************************************************************************)
\* The calls into the libraries and the C library that a phase can have fail.
FailPoints == {"none", "ploaderListCreate", "ploaderListFilterBySerialNumber",
               "ploaderOpenFromList", "printBootloaderInfo",
               "ploaderCreateInfo", "malloc(appSize)", "malloc(eepromSize)",
               "fopen", "ihxRead", "ihxWrite", "ploaderWriteFlash",
               "ploaderWriteEeprom", "ploaderReadFlash", "ploaderReadEeprom",
               "ploaderRestartDevice"}

\* The session, the devices and the files after a phase with result r.
Apply(r) ==
    /\ bootloaderHandle' = r.handle
    /\ bootloaderList' = r.list
    /\ openHandles' = Opened(openHandles, r)
    /\ liveLists' = Lists(liveLists, bootloaderList, r.list)
    /\ deviceMem' = r.mem
    /\ files' = r.files
    /\ hist' = Recorded(hist, r)

\* actionsPrepare: the prepare phase of the entry at idx; the pass returns
\* the first code that is not 0, and 0 after the last entry.
ActionsPrepare ==
    /\ pc = "actionsPrepare"
    /\ IF idx > Len(actions)
       THEN /\ Return("actionsPrepare", EXIT_SUCCESS)
            /\ UNCHANGED <<session, actions, deviceMem, files, hist>>
       ELSE \E fail \in FailPoints :
              \E r \in {prepare(actions[idx], bootloaderHandle, bootloaderList,
                              fail)} :
                  /\ Apply(r)
                  /\ actions' = [actions EXCEPT ![idx] =
                        [r.action EXCEPT !.prepared = (r.code = EXIT_SUCCESS),
                                         !.ops = @ \o r.ops]]
                  /\ IF r.code # EXIT_SUCCESS
                     THEN Return("actionsPrepare", r.code)
                     ELSE Continue /\ idx' = idx + 1
    /\ UNCHANGED <<argIndex, flags, listLoop, connected, timer>>

\* actionsExecute: the execute phase of the entry at idx, for every action
\* but the list action.
ActionsExecute ==
    /\ pc = "actionsExecute"
    /\ listI = 0
    /\ IF idx > Len(actions)
       THEN /\ Return("actionsExecute", EXIT_SUCCESS)
            /\ UNCHANGED <<session, actions, deviceMem, files, hist>>
       ELSE /\ actions[idx].type.execute # "listConnectedBootloaders"
            /\ \E fail \in FailPoints :
                 \E r \in {execute(actions[idx], bootloaderHandle,
                                 bootloaderList, fail)} :
                     /\ Apply(r)
                     /\ actions' = [actions EXCEPT ![idx] =
                           [r.action EXCEPT !.executed = TRUE,
                                            !.ops = @ \o r.ops]]
                     /\ IF r.code # EXIT_SUCCESS
                        THEN Return("actionsExecute", r.code)
                        ELSE Continue /\ idx' = idx + 1
    /\ UNCHANGED <<argIndex, flags, listLoop, connected, timer>>

(***************************************************************************)
(* listConnectedBootloaders, the execute phase of the list action.         *)
(***************************************************************************)
\* Mutant of listCloseHandle: the list action leaves the handle open.
listKeepsHandle(open, handle) == [open |-> open, handle |-> handle]

\* Mutant of listCloseHandle: the handle is closed but bootloaderHandle is
\* not set to NULL.
listClosesKeepsPointer(open, handle) ==
    [open |-> open \ {handle}, handle |-> handle]

\* ploaderClose(bootloaderHandle); bootloaderHandle = NULL;
listCloseHandle(open, handle) ==
    [open |-> open \ {handle}, handle |-> NoHandle]

\* The loop goes on to the next bootloader, or the action returns 0.
ListAdvance ==
    /\ Continue
    /\ IF listI + 1 > ploaderListSize(bootloaderList)
       THEN listI' = 0 /\ idx' = idx + 1
       ELSE listI' = listI + 1 /\ idx' = idx

\* The call up to the loop: close the handle, require the list, count.
ListBegin ==
    /\ pc = "actionsExecute"
    /\ listI = 0
    /\ idx <= Len(actions)
    /\ actions[idx].type.execute = "listConnectedBootloaders"
    /\ \E fail \in {"none", "ploaderListCreate",
                    "ploaderListFilterBySerialNumber"} :
        LET c == listCloseHandle(openHandles, bootloaderHandle)
            l == bootloaderListRequire(bootloaderList, fail)
            h == [hist EXCEPT
                    !.discoveredIn = @ \cup (IF l.discovered THEN {pc} ELSE {}),
                    !.listFrom = IF l.discovered THEN "discovery" ELSE "cache"]
        IN  /\ bootloaderHandle' = c.handle
            /\ openHandles' = c.open
            /\ bootloaderList' = l.list
            /\ liveLists' = Lists(liveLists, bootloaderList, l.list)
            /\ actions' = [actions EXCEPT ![idx].executed = TRUE]
            /\ IF l.code # EXIT_SUCCESS
               THEN /\ Return("actionsExecute", ERROR_OPERATION_FAILED)
                    /\ listI' = 0
                    /\ hist' = h
               ELSE IF ploaderListSize(l.list) = 0
               THEN /\ Return("actionsExecute", bootloaderNotFoundInfo.code)
                    /\ listI' = 0
                    /\ hist' = [h EXCEPT
                                  !.msgs = @ \cup {bootloaderNotFoundInfo.msg}]
               ELSE /\ Continue
                    /\ idx' = idx
                    /\ listI' = 1
                    /\ hist' = h
    /\ UNCHANGED <<argIndex, flags, tempHandle, world, timer>>

\* One bootloader of the list: ploaderListCreateInfo, then getStatus opens
\* its own handle on it.
ListEntryOpen ==
    /\ pc = "actionsExecute"
    /\ listI >= 1
    /\ tempHandle = NoHandle
    /\ \E fail \in {"none", "ploaderListCreateInfo", "ploaderOpenFromList"} :
        IF Fails(fail, "ploaderListCreateInfo")
        THEN /\ Return("actionsExecute", ERROR_OPERATION_FAILED)
             /\ listI' = 0
             /\ UNCHANGED <<tempHandle, openHandles, hist>>
        ELSE IF Fails(fail, "ploaderOpenFromList")
        THEN \* status "?": the line is printed and the loop goes on
             /\ ListAdvance
             /\ UNCHANGED <<tempHandle, openHandles, hist>>
        ELSE /\ tempHandle' = NewHandle(bootloaderList.devs[listI])
             /\ openHandles' = openHandles \cup {tempHandle'}
             /\ hist' = [hist EXCEPT !.opens = @ + 1,
                           !.openWhileOpen = @ \/ openHandles # {}]
             /\ Continue
             /\ UNCHANGED <<idx, listI>>
    /\ UNCHANGED <<argIndex, flags, bootloaderList, bootloaderHandle, liveLists,
                   actions, world, timer>>

\* getStatus checks the application and closes its handle, whether or not
\* the check worked; the line is printed and the loop goes on.
ListEntryClose ==
    /\ pc = "actionsExecute"
    /\ listI >= 1
    /\ tempHandle # NoHandle
    /\ \E fail \in {"none", "ploaderCheckApplication"} :
        /\ hist' = [hist EXCEPT !.closedOps = @ \/ tempHandle \notin openHandles]
        /\ openHandles' = openHandles \ {tempHandle}
        /\ tempHandle' = NoHandle
        /\ ListAdvance
    /\ UNCHANGED <<argIndex, flags, bootloaderList, bootloaderHandle, liveLists,
                   actions, world, timer>>

(***************************************************************************)
(* restartBootloaderIfNeeded and the end of main().                        *)
(***************************************************************************)
\* Mutant of restartBootloaderIfNeeded: it does not look at the flag.
restartBootloaderAlways(handle, list, fail) ==
    LET h == bootloaderHandleRequire(handle, list, fail)
        open == openHandles \cup {h.opened}
        restart == <<Op("ploaderRestartDevice", h.handle, open)>>
        a == NewAction(actList)
    IN  IF h.code # EXIT_SUCCESS
        THEN PhaseResult(h.code, a, h, <<>>, deviceMem, files)
        ELSE IF Fails(fail, "ploaderRestartDevice")
        THEN PhaseResult(ERROR_OPERATION_FAILED, a, h, restart, deviceMem, files)
        ELSE PhaseResult(EXIT_SUCCESS, a, h, restart, deviceMem, files)

\* Returns the exit code, the session, and the operations issued.
restartBootloaderIfNeeded(handle, list, fail) ==
    LET h == bootloaderHandleRequire(handle, list, fail)
        open == openHandles \cup {h.opened}
        restart == <<Op("ploaderRestartDevice", h.handle, open)>>
        a == NewAction(actList)
    IN  IF ~restartBootloaderFlag
        THEN PhaseResult(EXIT_SUCCESS, a, NoSession(handle, list), <<>>,
                         deviceMem, files)
        ELSE IF h.code # EXIT_SUCCESS
        THEN PhaseResult(h.code, a, h, <<>>, deviceMem, files)
        ELSE IF Fails(fail, "ploaderRestartDevice")
        THEN PhaseResult(ERROR_OPERATION_FAILED, a, h, restart, deviceMem, files)
        ELSE PhaseResult(EXIT_SUCCESS, a, h, restart, deviceMem, files)

RestartBootloaderIfNeeded ==
    /\ pc = "restartBootloaderIfNeeded"
    /\ \E fail \in FailPoints :
        \E r \in {restartBootloaderIfNeeded(bootloaderHandle, bootloaderList,
                                            fail)} :
            /\ bootloaderHandle' = r.handle
            /\ bootloaderList' = r.list
            /\ openHandles' = Opened(openHandles, r)
            /\ liveLists' = Lists(liveLists, bootloaderList, r.list)
            /\ hist' = [Recorded(hist, r) EXCEPT !.restarts = @ + Len(r.ops)]
            /\ Return("restartBootloaderIfNeeded", r.code)
    /\ UNCHANGED <<argIndex, flags, actions, listLoop, world, timer>>

\* Mutant of mainRelease: main() does not close the handle.
mainReleaseKeepsHandle(queue, open, handle, lists, list) ==
    [actions |-> actionsFree(queue), open |-> open,
     lists |-> IF list.cached THEN lists - 1 ELSE lists]

\* main() after run(): actionsFree(), ploaderClose(bootloaderHandle),
\* ploaderListFree(bootloaderList).
mainRelease(queue, open, handle, lists, list) ==
    [actions |-> actionsFree(queue), open |-> open \ {handle},
     lists |-> IF list.cached THEN lists - 1 ELSE lists]

\* main() releases everything and returns the exit code.
Cleanup ==
    /\ pc = "cleanup"
    /\ \E m \in {mainRelease(actions, openHandles, bootloaderHandle, liveLists,
                             bootloaderList)} :
          /\ actions' = m.actions
          /\ openHandles' = m.open
          /\ liveLists' = m.lists
    /\ hist' = [hist EXCEPT !.cleanup = TRUE]
    /\ pc' = "done"
    /\ UNCHANGED <<argIndex, flags, bootloaderList, bootloaderHandle, idx,
                   listLoop, exitCode, world, timer, steps, stepCodes>>

Next ==
    \/ Main
    \/ ParseArgs
    \/ WaitBegin
    \/ WaitPoll
    \/ Attach
    \/ ActionsPrepare
    \/ ActionsExecute
    \/ ListBegin
    \/ ListEntryOpen
    \/ ListEntryClose
    \/ RestartBootloaderIfNeeded
    \/ Cleanup

Spec == Init /\ [][Next]_vars

(***************************************************************************)
(* Properties.                                                             *)
(***************************************************************************)
\* A flash or EEPROM write among the device operations of an action.
Writes(a) ==
    \E k \in 1..Len(a.ops) :
        a.ops[k].op \in {"ploaderWriteFlash", "ploaderWriteEeprom"}

\* The code a finished step of run() returned, or NoExit if it has not.
StepCode(n) == IF Len(stepCodes) >= n THEN stepCodes[n] ELSE NoExit

\* C1: no action's execute phase runs, and no flash or EEPROM write is
\* issued, unless the prepare phase of every queued action has succeeded;
\* once the prepare pass has returned a failure no action has reached
\* execute.
C1_ExecuteOnlyAfterAllPrepared ==
    /\ \A i \in 1..Len(actions) :
          (actions[i].executed \/ Writes(actions[i]))
              => \A j \in 1..Len(actions) : actions[j].prepared
    /\ (\E j \in 1..Len(actions) : ~actions[j].prepared)
          => \A i \in 1..Len(actions) :
                ~actions[i].executed /\ ~Writes(actions[i])

\* C1 witness: the prepare phase of the second action failed after the first
\* one's succeeded, and the run is over.
C1_Witness ==
    /\ pc = "done"
    /\ Len(actions) >= 2
    /\ actions[1].prepared
    /\ ~actions[2].prepared
    /\ StepCode(3) \notin {NoExit, EXIT_SUCCESS}

\* C2: the steps of run() start in the order parse, wait, prepare, execute,
\* restart; the wait polls and the restart is issued only if requested; a
\* step that fails is the last one started; and the exit code is the code
\* of the last step, which is 0 only if all five steps returned 0.
C2_StepsInOrderAndFailFast ==
    /\ Len(steps) <= 5
    /\ \A i \in 1..Len(steps) :
          steps[i] = <<"parseArgs", "waitForBootloaderIfNeeded",
                       "actionsPrepare", "actionsExecute",
                       "restartBootloaderIfNeeded">>[i]
    /\ Len(stepCodes) <= Len(steps)
    /\ Len(steps) <= Len(stepCodes) + 1
    /\ \A i \in 1..Len(stepCodes) :
          stepCodes[i] # EXIT_SUCCESS
              => /\ i = Len(stepCodes)
                 /\ Len(steps) = i
                 /\ pc \in {"cleanup", "done"}
                 /\ exitCode = stepCodes[i]
    /\ pc = "waitPoll" => waitForBootloaderFlag
    /\ hist.restarts > 0 => restartBootloaderFlag
    /\ (pc = "done" /\ steps # <<>>)
          => /\ exitCode = stepCodes[Len(stepCodes)]
             /\ exitCode = EXIT_SUCCESS
                   <=> /\ Len(stepCodes) = 5
                       /\ \A i \in 1..5 : stepCodes[i] = EXIT_SUCCESS

\* C2 witness: the wait failed, so run() ended after its second step with
\* the code of the wait.
C2_Witness ==
    /\ pc = "done"
    /\ Len(steps) = 2
    /\ StepCode(2) = ERROR_BOOTLOADER_NOT_FOUND
    /\ exitCode = ERROR_BOOTLOADER_NOT_FOUND

\* C3: when the process exits after run(), whichever step failed or none,
\* main() has released everything: the data of every action, the open
\* handle and the cached list; no handle is left open.
C3_CleanupAlwaysRuns ==
    (pc = "done" /\ steps # <<>>)
        => /\ hist.cleanup
           /\ openHandles = {}
           /\ liveLists = 0
           /\ \A i \in 1..Len(actions) :
                 /\ ~actions[i].data
                 /\ actions[i].flash = NullBuffer
                 /\ actions[i].eeprom = NullBuffer
                 /\ ~actions[i].file

\* C3 witness: the execute pass failed with a handle open and an image
\* loaded, and the process has exited.
C3_Witness ==
    /\ pc = "done"
    /\ hist.opens > 0
    /\ bootloaderHandle # NoHandle
    /\ StepCode(4) = ERROR_OPERATION_FAILED
    /\ \E i \in 1..Len(actions) : actions[i].prepared /\ actions[i].data = FALSE
          /\ actions[i].type.prepare = "readHexFile"

\* C4: at most one handle is open at any time, the session's handle and the
\* handles getStatus opens counted together, and no handle is ever opened
\* while another is open.
C4_AtMostOneHandle ==
    /\ Cardinality(openHandles) <= 1
    /\ ~hist.openWhileOpen

\* C4 witness: getStatus has its handle open in a run that had the
\* session's handle open before.
C4_Witness ==
    /\ tempHandle # NoHandle
    /\ tempHandle \in openHandles
    /\ hist.opens >= 2

\* bootloaderHandleRequire is about to be called with no handle cached.
RequiresHandle ==
    /\ bootloaderHandle = NoHandle
    /\ \/ /\ pc = "actionsPrepare"
          /\ idx <= Len(actions)
          /\ actions[idx].type.prepare \in {"readHexFile", "clearHexFileInput"}
       \/ /\ pc = "actionsExecute"
          /\ listI = 0
          /\ idx <= Len(actions)
          /\ actions[idx].type.execute \notin
                {"listConnectedBootloaders", "listSupportedBootloaders"}
       \/ /\ pc = "restartBootloaderIfNeeded"
          /\ restartBootloaderFlag

\* The step of run() that is running returns code in this transition.
Returns(code) ==
    /\ Len(stepCodes') = Len(stepCodes) + 1
    /\ stepCodes'[Len(stepCodes')] = code

\* No handle is opened or cached in this transition.
NoHandleOpened ==
    /\ bootloaderHandle' = NoHandle
    /\ openHandles' = openHandles

\* The only bootloader of the list is opened, and the handle cached.
OnlyOneOpened ==
    /\ bootloaderHandle' # NoHandle
    /\ bootloaderHandle'.dev = bootloaderList'.devs[1]
    /\ openHandles' = openHandles \cup {bootloaderHandle'}

\* C5 as claimed: called with no handle open, bootloaderHandleRequire
\* returns BootloaderNotFound with no handle opened for a list of size 0,
\* opens the bootloader and caches the handle for a list of size 1, and
\* returns OperationFailed with no handle opened for a longer list.
C5_SelectionPolicyAsClaimed ==
    [][(RequiresHandle /\ bootloaderList'.cached)
          => /\ ploaderListSize(bootloaderList') = 0
                => Returns(ERROR_BOOTLOADER_NOT_FOUND) /\ NoHandleOpened
             /\ ploaderListSize(bootloaderList') = 1 => OnlyOneOpened
             /\ ploaderListSize(bootloaderList') > 1
                => Returns(ERROR_OPERATION_FAILED) /\ NoHandleOpened]_vars

\* C5 amended: as claimed, except that for a list of size 1 the open of that
\* bootloader can fail, and then OperationFailed is returned with no handle
\* opened or cached.
C5_SelectionPolicy ==
    [][(RequiresHandle /\ bootloaderList'.cached)
          => /\ ploaderListSize(bootloaderList') = 0
                => Returns(ERROR_BOOTLOADER_NOT_FOUND) /\ NoHandleOpened
             /\ ploaderListSize(bootloaderList') = 1
                => \/ OnlyOneOpened
                   \/ Returns(ERROR_OPERATION_FAILED) /\ NoHandleOpened
             /\ ploaderListSize(bootloaderList') > 1
                => Returns(ERROR_OPERATION_FAILED) /\ NoHandleOpened]_vars

\* C5 witness: the handle was opened on the only bootloader of a list made
\* from two attached bootloaders by the serial number filter.
C5_Witness ==
    /\ bootloaderHandle \in openHandles
    /\ bootloaderList.cached
    /\ ploaderListSize(bootloaderList) = 1
    /\ bootloaderHandle.dev = bootloaderList.devs[1]
    /\ Cardinality(connected) > 1

\* C6: the exit code of every run is 0, BadArguments, BootloaderNotFound or
\* OperationFailed.
C6_ExitCodeIsAnExitCode ==
    pc = "done"
        => exitCode \in {EXIT_SUCCESS, ERROR_BAD_ARGS,
                         ERROR_BOOTLOADER_NOT_FOUND, ERROR_OPERATION_FAILED}

ListCalled ==
    /\ pc = "actionsExecute"
    /\ listI = 0
    /\ idx <= Len(actions)
    /\ actions[idx].type.execute = "listConnectedBootloaders"

C8_WaitTimeoutWindow ==
    hist.waitElapsed # -1
        => /\ StepCode(2) = ERROR_BOOTLOADER_NOT_FOUND
           /\ hist.waitElapsed >= WAIT_SECONDS * TicksPerSecond
           /\ hist.waitElapsed <= WAIT_SECONDS * TicksPerSecond + 1

\* The attached bootloaders that pass the serial number filter.
Matching ==
    {d \in connected : desiredSerialNumber \in {NULL, SerialNumberOf(d)}}

\* C9: without the wait flag the wait step discovers nothing and changes
\* nothing; with it, every poll starts without a cached list and discovers
\* anew, the wait returns success at the first poll that finds a matching
\* bootloader and leaves that list cached, and after a poll that finds none
\* no list is cached.
C9_WaitPolls ==
    [][/\ (pc = "waitForBootloaderIfNeeded" /\ ~waitForBootloaderFlag)
             => /\ pc' = "actionsPrepare"
                /\ UNCHANGED <<bootloaderList, liveLists, hist>>
       /\ (pc = "waitPoll" /\ connected' = connected)
             => /\ ~bootloaderList.cached
                /\ "waitForBootloaderIfNeeded" \in hist'.discoveredIn
                /\ pc' = "actionsPrepare"
                      => /\ Matching # {}
                         /\ bootloaderList'.cached
                         /\ {bootloaderList'.devs[i] :
                               i \in 1..Len(bootloaderList'.devs)} = Matching
                /\ (Matching # {} /\ pc' # "actionsPrepare")
                      => /\ pc' = "cleanup"
                         /\ exitCode' # ERROR_BOOTLOADER_NOT_FOUND
                /\ pc' = "waitPoll"
                      => ~bootloaderList'.cached /\ liveLists' = 0]_vars

\* C9 witness: the wait has returned success and left the list it found
\* cached for the prepare pass.
C9_Witness ==
    /\ pc = "actionsPrepare"
    /\ idx = 1
    /\ waitForBootloaderFlag
    /\ StepCode(2) = EXIT_SUCCESS
    /\ bootloaderList.cached
    /\ ploaderListSize(bootloaderList) > 0
    /\ hist.discoveredIn = {"waitForBootloaderIfNeeded"}

\* C10: a restart command is issued only if --restart or -w was on the
\* command line, only after the execute pass has returned success with every
\* queued action executed, at most once, and on an open handle.
C10_RestartOnlyWhenAsked ==
    hist.restarts > 0
        => /\ hist.restartOptions # {}
           /\ restartBootloaderFlag
           /\ StepCode(4) = EXIT_SUCCESS
           /\ \A i \in 1..Len(actions) : actions[i].executed
           /\ hist.restarts = 1
           /\ ~hist.closedOps
           /\ pc \in {"cleanup", "done"}

\* C10 witness: --restart was read before the action, and the restart was
\* issued after the action was executed.
C10_Witness ==
    /\ hist.restarts = 1
    /\ hist.restartFirst
    /\ hist.restartOptions = {"--restart"}
    /\ Len(actions) >= 1
    /\ \A i \in 1..Len(actions) : actions[i].executed

\* Nothing outside the argument reader and the action queue has been touched:
\* no discovery, no handle, no file, no buffer, no device operation.
NothingTouched ==
    /\ hist.discoveredIn = {}
    /\ hist.opens = 0
    /\ hist.restarts = 0
    /\ hist.msgs = {}
    /\ session = <<NoList, NoHandle, {}, 0>>
    /\ tempHandle = NoHandle
    /\ deviceMem = [d \in Devices |-> [flash |-> <<0, d>>, eeprom |-> <<d>>]]
    /\ files = [f \in ValueTokens |-> InitialFile]
    /\ \A k \in 1..Len(actions) :
          /\ actions[k].ops = <<>>
          /\ actions[k].flash = NullBuffer /\ actions[k].eeprom = NullBuffer
          /\ ~actions[k].file
          /\ ~actions[k].prepared /\ ~actions[k].executed

\* C11: a second -d makes parseArgs return ERROR_BAD_ARGS at once, and
\* while parseArgs runs and after it has returned ERROR_BAD_ARGS (second -d,
\* -d or an action without its value, unknown option) no discovery, handle,
\* file or device operation has taken place, no later step of run() has
\* started, and ERROR_BAD_ARGS is the exit code.
C11_BadArgsBeforeAnyDiscovery ==
    /\ hist.dashD <= 2
    /\ hist.dashD = 2 => StepCode(1) = ERROR_BAD_ARGS
    /\ pc = "parseArgs" => NothingTouched
    /\ StepCode(1) = ERROR_BAD_ARGS =>
          /\ NothingTouched
          /\ steps = <<"parseArgs">>
          /\ pc \in {"cleanup", "done"}
          /\ exitCode = ERROR_BAD_ARGS

\* -d S1 -d has been read with bootloaders attached, and main() has returned.
C11_Witness ==
    /\ pc = "done"
    /\ hist.dashD = 2
    /\ desiredSerialNumber # NULL
    /\ connected # {}
    /\ exitCode = ERROR_BAD_ARGS

\* An entry of one of the three erase actions.
IsErase(a) == a.type.prepare = "clearHexFileInput"

\* Every byte of the buffer is 0xFF.
AllFF(buffer) == \A i \in 1..Len(buffer) : buffer[i] = 255

\* The buffers of an erase entry are all 0xFF and as long as the regions
\* bootloader d reports.
ErasedFor(a, d) ==
    /\ Len(a.flash) = ploaderInfo(d).appSize
    /\ Len(a.eeprom) = ploaderInfo(d).eepromSize
    /\ AllFF(a.flash) /\ AllFF(a.eeprom)

\* The execute phase of the entry at idx is called and returns 0.
ExecuteSucceeds ==
    /\ pc = "actionsExecute"
    /\ listI = 0
    /\ idx <= Len(actions)
    /\ actions[idx].type.execute # "listConnectedBootloaders"
    /\ idx' = idx + 1

\* C12: from the moment the prepare phase of an erase action has succeeded
\* until main() frees it, its flash buffer is appSize bytes and its EEPROM
\* buffer eepromSize bytes of the bootloader that was opened, every byte
\* 0xFF; and a successful execute phase leaves every region it writes
\* holding exactly those bytes, and the other regions as they were.
C12_EraseBuffersAllFF ==
    [][/\ \A k \in 1..Len(actions') :
              IsErase(actions'[k]) /\ actions'[k].prepared /\ pc' # "done"
                  => /\ ploaderListSize(bootloaderList') = 1
                     /\ ErasedFor(actions'[k], bootloaderList'.devs[1])
       /\ ExecuteSucceeds /\ IsErase(actions[idx]) =>
             LET d == bootloaderHandle'.dev
                 e == actions[idx].type.execute
                 region(r, size) ==
                     IF r \in {"flash", "eeprom"} \ 
                           (IF e = "writeFlash" THEN {"eeprom"}
                            ELSE IF e = "writeEeprom" THEN {"flash"} ELSE {})
                     THEN /\ Len(deviceMem'[d][r]) = size
                          /\ AllFF(deviceMem'[d][r])
                     ELSE deviceMem'[d][r] = deviceMem[d][r]
             IN  /\ bootloaderHandle' \in openHandles'
                 /\ d = bootloaderList'.devs[1]
                 /\ actions'[idx].flash = actions[idx].flash
                 /\ actions'[idx].eeprom = actions[idx].eeprom
                 /\ region("flash", ploaderInfo(d).appSize)
                 /\ region("eeprom", ploaderInfo(d).eepromSize)
                 /\ \A o \in Devices \ {d} : deviceMem'[o] = deviceMem[o]
      ]_vars

\* An erase of flash and EEPROM has run: the bootloader's memory is erased.
C12_Witness ==
    /\ pc = "done"
    /\ exitCode = EXIT_SUCCESS
    /\ \E k \in 1..Len(actions) :
          /\ IsErase(actions[k]) /\ actions[k].executed /\ Writes(actions[k])
          /\ actions[k].type.execute = "writeFlashAndEeprom"
    /\ \E d \in connected :
          /\ deviceMem[d].flash = Filled(ploaderInfo(d).appSize)
          /\ deviceMem[d].eeprom = Filled(ploaderInfo(d).eepromSize)

(***************************************************************************)
(* The round trip: p-load --write f.hex --read OUT (or -w), from the state *)
(* parseArgs and the wait step leave, over every HEX file of up to         *)
(* MaxImageBytes data bytes at the addresses in and next to the regions.   *)
(***************************************************************************)
\* The addresses of the two regions and the ones next to them.
FileAddresses ==
    LET i == ploaderInfo(1)
    IN  ((i.appAddress - 1)..(i.appAddress + i.appSize))
        \cup ((i.eepromAddressHexFile - 1)..
                 (i.eepromAddressHexFile + i.eepromSize))

FileBytes == {0, 17, 255}

\* The HEX files: at most MaxImageBytes data bytes, one per address.
Images ==
    {{<<adr, f[adr]>> : adr \in DOMAIN f} :
        f \in UNION {[A -> FileBytes] :
                       A \in {B \in SUBSET FileAddresses :
                                 Cardinality(B) <= MaxImageBytes}}}

\* The queue after --write f.hex --read out.
RoundTripQueue(out) ==
    <<[NewAction(actWriteFlashAndEeprom) EXCEPT !.data = TRUE,
                                                !.fileName = "f.hex"],
      [NewAction(actReadFlashAndEeprom) EXCEPT !.data = TRUE,
                                               !.fileName = out]>>

RoundTripInit ==
    /\ pc = "actionsPrepare"
    /\ argIndex = 4
    /\ desiredSerialNumber = NULL
    /\ waitForBootloaderFlag = FALSE
    /\ restartBootloaderFlag \in BOOLEAN
    /\ bootloaderList = NoList
    /\ bootloaderHandle = NoHandle
    /\ openHandles = {}
    /\ liveLists = 0
    /\ \E out \in ValueTokens : actions = RoundTripQueue(out)
    /\ idx = 1
    /\ listI = 0
    /\ tempHandle = NoHandle
    /\ exitCode = NoExit
    /\ connected \in SUBSET Devices
    /\ deviceMem = [d \in Devices |-> [flash |-> <<0, d>>, eeprom |-> <<d>>]]
    /\ \E image \in Images :
          /\ files = [f \in ValueTokens |->
                        IF f = "f.hex" THEN image ELSE InitialFile]
          /\ hist = [InitialHistory EXCEPT
                        !.original = image,
                        !.restartOptions = IF restartBootloaderFlag
                                           THEN {"-w"} ELSE {}]
    /\ elapsed = 0
    /\ startFraction = Unknown
    /\ steps = <<"parseArgs", "waitForBootloaderIfNeeded", "actionsPrepare">>
    /\ stepCodes = <<EXIT_SUCCESS, EXIT_SUCCESS>>

RoundTripNext ==
    \/ ActionsPrepare
    \/ ActionsExecute
    \/ RestartBootloaderIfNeeded
    \/ Cleanup

RoundTripSpec == RoundTripInit /\ [][RoundTripNext]_vars

\* The byte a region holds for a file address after the HEX file was read
\* into it: the file's byte for that address, 0xFF if it has none.
ImageByte(image, adr) ==
    IF \E rec \in image : rec[1] = adr
    THEN (CHOOSE rec \in image : rec[1] = adr)[2]
    ELSE 255

\* The file addresses [start, start + size) of a region.
RegionAddresses(start, size) == start..(start + size - 1)

\* C13: when p-load --write f.hex --read OUT has returned 0, the bootloader
\* holds, and OUT holds for exactly the addresses of the flash region
\* [appAddress, appAddress + appSize) and of the EEPROM region
\* [eepromAddressHexFile, eepromAddressHexFile + eepromSize), the byte
\* f.hex had for that address, and 0xFF where f.hex had none.
C13_RoundTrip ==
    pc = "done" /\ exitCode = EXIT_SUCCESS /\ Len(actions) = 2
        /\ actions[1].type = actWriteFlashAndEeprom
        /\ actions[2].type = actReadFlashAndEeprom
    => LET d == bootloaderHandle.dev
           i == ploaderInfo(d)
           flashAddresses == RegionAddresses(i.appAddress, i.appSize)
           eepromAddresses == RegionAddresses(i.eepromAddressHexFile,
                                              i.eepromSize)
       IN  /\ deviceMem[d].flash =
                  [k \in 1..i.appSize |->
                      ImageByte(hist.original, i.appAddress + k - 1)]
           /\ deviceMem[d].eeprom =
                  [k \in 1..i.eepromSize |->
                      ImageByte(hist.original, i.eepromAddressHexFile + k - 1)]
           /\ files[actions[2].fileName] =
                  {<<adr, ImageByte(hist.original, adr)>> :
                      adr \in flashAddresses \cup eepromAddresses}

\* A round trip of a file that gives one byte of flash and none of the
\* EEPROM, read back into the file it was written from.
C13_Witness ==
    /\ pc = "done"
    /\ exitCode = EXIT_SUCCESS
    /\ Len(actions) = 2
    /\ actions[1].type = actWriteFlashAndEeprom
    /\ actions[2].type = actReadFlashAndEeprom
    /\ actions[2].fileName = "f.hex"
    /\ hist.original = {<<3, 17>>, <<9, 0>>}
    /\ files["f.hex"] = {<<2, 255>>, <<3, 17>>, <<8, 255>>}

\* The command line has given erase actions and nothing else to do.
EraseOnly ==
    /\ Len(actions) >= 1
    /\ \A k \in 1..Len(actions) : IsErase(actions[k])

\* The bootloaders have been enumerated and none was found: the empty list
\* is cached, or the wait has run out.
NoneFound ==
    \/ bootloaderList.cached /\ ploaderListSize(bootloaderList) = 0
    \/ hist.waitElapsed >= 0

\* C14: with no bootloader attached and only erase actions queued, at no
\* moment of the run is an image buffer allocated, a file opened or
\* changed, a handle opened or a device operation issued; and when the
\* arguments were accepted and the enumeration itself worked, main()
\* returns ERROR_BOOTLOADER_NOT_FOUND after the error message.
C14_EraseWithNoBootloader ==
    connected = {} /\ EraseOnly =>
        /\ \A k \in 1..Len(actions) :
              /\ actions[k].flash = NullBuffer
              /\ actions[k].eeprom = NullBuffer
              /\ ~actions[k].file
              /\ actions[k].ops = <<>>
              /\ ~actions[k].executed
        /\ files = [f \in ValueTokens |-> InitialFile]
        /\ deviceMem = [d \in Devices |-> [flash |-> <<0, d>>, eeprom |-> <<d>>]]
        /\ hist.opens = 0
        /\ openHandles = {}
        /\ hist.restarts = 0
        /\ pc = "done" /\ StepCode(1) = EXIT_SUCCESS /\ NoneFound =>
              /\ exitCode = ERROR_BOOTLOADER_NOT_FOUND
              /\ \E m \in hist.msgs :
                    m.severity = "error" /\ m.text = "No bootloader found"

\* p-load --erase, without --wait, has run with no bootloader attached and
\* the prepare phase has returned ERROR_BOOTLOADER_NOT_FOUND.
C14_Witness ==
    /\ pc = "done"
    /\ connected = {}
    /\ EraseOnly
    /\ ~waitForBootloaderFlag
    /\ actions[1].type = actEraseFlashAndEeprom
    /\ stepCodes = <<EXIT_SUCCESS, EXIT_SUCCESS, ERROR_BOOTLOADER_NOT_FOUND>>
    /\ exitCode = ERROR_BOOTLOADER_NOT_FOUND

\* An action whose prepare or execute phase calls bootloaderHandleRequire.
DeviceRequiring(a) ==
    \/ a.type.prepare \in {"readHexFile", "clearHexFileInput"}
    \/ a.type.execute \in {"writeFlashAndEeprom", "writeFlash", "writeEeprom",
                            "readFlashAndEeprom", "readFlash", "readEeprom"}

\* The message bootloaderNotFoundError / bootloaderNotFoundInfo prints.
NotFoundMessage(sev) == Message(sev, "No bootloader found", desiredSerialNumber)

C16_ListEmptyIsInfo ==
    [][/\ ListCalled /\ bootloaderList'.cached
              /\ ploaderListSize(bootloaderList') = 0 =>
              /\ Returns(ERROR_BOOTLOADER_NOT_FOUND)
              /\ hist'.msgs = hist.msgs \cup {NotFoundMessage("info")}
              /\ \A m \in hist'.msgs : m.severity # "error"
              /\ pc' = "cleanup"
              /\ exitCode' = ERROR_BOOTLOADER_NOT_FOUND
              /\ \A k \in (idx + 1)..Len(actions) : ~actions'[k].executed
              /\ hist'.restarts = 0
              /\ "restartBootloaderIfNeeded" \notin
                      {steps'[k] : k \in 1..Len(steps')}
       /\ pc = "cleanup" =>
              /\ pc' = "done"
              /\ exitCode' = exitCode
              /\ hist'.restarts = hist.restarts
              /\ hist'.msgs = hist.msgs
              /\ \A k \in 1..Len(actions) :
                    actions'[k].executed = actions[k].executed
      ]_vars

\* p-load --list --restart has found no bootloader: the informational
\* message is the only one, and no restart followed.
C16_Witness ==
    /\ pc = "done"
    /\ hist.listFrom = "discovery"
    /\ restartBootloaderFlag
    /\ ploaderListSize(bootloaderList) = 0 /\ bootloaderList.cached
    /\ exitCode = ERROR_BOOTLOADER_NOT_FOUND
    /\ hist.msgs = {NotFoundMessage("info")}
    /\ hist.restarts = 0

\* The calls bootloaderListRequire makes that can fail.
ListFailPoints == {"none", "ploaderListCreate", "ploaderListFilterBySerialNumber"}

\* C17: in every state the run reaches, bootloaderListRequire called with a
\* list cached returns 0 without a discovery and leaves the list as it is,
\* so that a call after a successful call changes nothing; called without,
\* a discovery that works returns 0 and caches the list of the matching
\* bootloaders, the empty list if there is none; and a failure of the
\* filtering returns ERROR_OPERATION_FAILED and caches nothing.  No step of
\* the run replaces a list that is cached.
C17_ListRequireIdempotent ==
    [][/\ \A fail \in ListFailPoints :
            LET r == bootloaderListRequire(bootloaderList, fail)
                unchanged(l) ==
                    [code |-> EXIT_SUCCESS, list |-> l, discovered |-> FALSE]
            IN  /\ bootloaderList.cached => r = unchanged(bootloaderList)
                /\ r.code = EXIT_SUCCESS =>
                      /\ r.list.cached
                      /\ \A again \in ListFailPoints :
                            bootloaderListRequire(r.list, again)
                                = unchanged(r.list)
                /\ ~bootloaderList.cached /\ fail = "none" =>
                      /\ r.code = EXIT_SUCCESS
                      /\ r.discovered
                      /\ r.list.cached
                      /\ r.list.devs = Ascending(Matching)
                /\ ~bootloaderList.cached /\ desiredSerialNumber # NULL
                      /\ fail = "ploaderListFilterBySerialNumber" =>
                      /\ r.code = ERROR_OPERATION_FAILED
                      /\ r.list = NoList
       /\ bootloaderList.cached => bootloaderList' = bootloaderList
      ]_vars

\* The list action has discovered that no bootloader is attached and has
\* left the empty list cached.
C17_Witness ==
    /\ pc = "cleanup"
    /\ hist.listFrom = "discovery"
    /\ bootloaderList.cached
    /\ ploaderListSize(bootloaderList) = 0
    /\ liveLists = 1

\* bootloaderHandleRequire is about to be called with the handle open.
HandleCached ==
    /\ bootloaderHandle # NoHandle
    /\ \/ /\ pc = "actionsPrepare"
          /\ idx <= Len(actions)
          /\ actions[idx].type.prepare \in {"readHexFile", "clearHexFileInput"}
       \/ /\ pc = "actionsExecute"
          /\ listI = 0
          /\ idx <= Len(actions)
          /\ actions[idx].type.execute \notin
                {"listConnectedBootloaders", "listSupportedBootloaders"}
       \/ /\ pc = "restartBootloaderIfNeeded"
          /\ restartBootloaderFlag

\* The call returns 0 and leaves the session as it is: no discovery, no
\* handle opened, nothing displayed.
SessionUntouched ==
    /\ UNCHANGED session
    /\ hist'.opens = hist.opens
    /\ hist'.shown = hist.shown
    /\ hist'.discoveredIn = hist.discoveredIn
    /\ hist'.msgs = hist.msgs

\* bootloaderHandleRequire opens the handle in this transition.
HandleOpened == bootloaderHandle = NoHandle /\ bootloaderHandle' # NoHandle

\* C18 as claimed: with the handle open bootloaderHandleRequire changes
\* nothing; the identity is displayed when, and only when, the handle is
\* opened; and in a run with one bootloader attached it is displayed at
\* most once.
C18_IdentityShownOncePerRun ==
    [][/\ HandleCached => SessionUntouched
       /\ hist'.shown = hist.shown + (IF HandleOpened THEN 1 ELSE 0)
       /\ Cardinality(connected') = 1 => hist'.shown <= 1
      ]_vars

\* C18 amended: with the handle open bootloaderHandleRequire changes
\* nothing; the identity is displayed only at the moment the handle is
\* opened, at most once per opening, and not at all if the query of the
\* identity fails; the identity is displayed at most once in a run that has
\* no list action, while after a list action, which closes the handle, the
\* next call opens the bootloader and displays its identity again.
C18_IdentityShownOncePerOpen ==
    [][/\ HandleCached => SessionUntouched
       /\ hist'.shown \in {hist.shown, hist.shown + 1}
       /\ hist'.shown = hist.shown + 1 => HandleOpened
       /\ HandleOpened => hist'.opens = hist.opens + 1
       /\ (\A k \in 1..Len(actions') :
               actions'[k].type.execute # "listConnectedBootloaders")
              => hist'.shown <= 1 /\ hist'.opens <= 1
       /\ hist'.shown <= hist'.opens
      ]_vars

\* A run with one bootloader attached in which the identity was displayed
\* twice: once when a prepare phase opened the handle, and again when the
\* handle was opened anew after the list action.
C18_Witness ==
    /\ pc = "done"
    /\ Cardinality(connected) = 1
    /\ hist.listFrom # "none"
    /\ hist.shown = 2
    /\ exitCode = EXIT_SUCCESS

\* The execute phase of the entry at idx, other than the list action, is
\* called.
ExecuteCalled ==
    /\ pc = "actionsExecute"
    /\ listI = 0
    /\ idx <= Len(actions)
    /\ actions[idx].type.execute # "listConnectedBootloaders"

\* The names of the device operations the entry at idx issues in this
\* transition, in the order it issues them.
IssuedNow ==
    [k \in 1..(Len(actions'[idx].ops) - Len(actions[idx].ops)) |->
        actions'[idx].ops[Len(actions[idx].ops) + k].op]

\* C19: the execute phase of a combined write or erase issues nothing if
\* it gets no handle, and else the flash write first; if that is all it
\* issues, the flash write has failed and it returns
\* ERROR_OPERATION_FAILED with the device unchanged; otherwise the EEPROM
\* write follows, and the phase returns 0 only after both.  The flash-only
\* and EEPROM-only variants issue exactly one write, to their own region,
\* and leave the other region alone.
C19_FlashBeforeEeprom ==
    [][ExecuteCalled =>
        LET e == actions[idx].type.execute
            d == bootloaderHandle'.dev
            F == "ploaderWriteFlash"
            E == "ploaderWriteEeprom"
        IN  /\ bootloaderHandle' = NoHandle => IssuedNow = <<>>
            /\ e = "writeFlashAndEeprom" /\ bootloaderHandle' # NoHandle =>
                  /\ IssuedNow \in {<<F>>, <<F, E>>}
                  /\ IssuedNow = <<F>> =>
                        /\ Returns(ERROR_OPERATION_FAILED)
                        /\ deviceMem' = deviceMem
                  /\ IssuedNow = <<F, E>> =>
                        /\ deviceMem'[d].flash = actions[idx].flash
                        /\ \/ /\ idx' = idx + 1
                              /\ deviceMem'[d].eeprom = actions[idx].eeprom
                           \/ /\ Returns(ERROR_OPERATION_FAILED)
                              /\ deviceMem'[d].eeprom = deviceMem[d].eeprom
            /\ e = "writeFlash" /\ bootloaderHandle' # NoHandle =>
                  /\ IssuedNow = <<F>>
                  /\ deviceMem'[d].eeprom = deviceMem[d].eeprom
                  /\ \/ /\ idx' = idx + 1
                        /\ deviceMem'[d].flash = actions[idx].flash
                     \/ /\ Returns(ERROR_OPERATION_FAILED)
                        /\ deviceMem' = deviceMem
            /\ e = "writeEeprom" /\ bootloaderHandle' # NoHandle =>
                  /\ IssuedNow = <<E>>
                  /\ deviceMem'[d].flash = deviceMem[d].flash
                  /\ \/ /\ idx' = idx + 1
                        /\ deviceMem'[d].eeprom = actions[idx].eeprom
                     \/ /\ Returns(ERROR_OPERATION_FAILED)
                        /\ deviceMem' = deviceMem
       ]_vars

\* A combined write whose flash write failed: the EEPROM write was not
\* issued and the run ended with ERROR_OPERATION_FAILED.
C19_Witness ==
    /\ pc = "done"
    /\ exitCode = ERROR_OPERATION_FAILED
    /\ Len(actions) = 1
    /\ actions[1].type = actWriteFlashAndEeprom
    /\ actions[1].executed
    /\ [k \in 1..Len(actions[1].ops) |-> actions[1].ops[k].op]
          = <<"ploaderCreateInfo", "ploaderWriteFlash">>

\* C20: every device operation is issued on a handle that is open at that
\* moment; until main() releases it, a handle that is cached is open, and so
\* is the handle getStatus holds; and the list action leaves no handle
\* cached and the one that was cached closed, so that whatever needs the
\* device next opens it anew.
C20_OperationsOnOpenHandle ==
    [][/\ ~hist'.closedOps
       /\ \A k \in 1..Len(actions') :
              \A n \in 1..Len(actions'[k].ops) : actions'[k].ops[n].open
       /\ pc' # "done" /\ bootloaderHandle' # NoHandle =>
              bootloaderHandle' \in openHandles'
       /\ tempHandle' # NoHandle => tempHandle' \in openHandles'
       /\ ListCalled =>
              /\ bootloaderHandle' = NoHandle
              /\ bootloaderHandle \notin openHandles'
       /\ HandleCached => bootloaderHandle \in openHandles
      ]_vars

\* p-load --list with an erase after it: the erase's prepare phase opened the
\* handle, the list action closed it, and its execute phase opened the
\* bootloader anew and wrote to it.
C20_Witness ==
    /\ pc = "done"
    /\ exitCode = EXIT_SUCCESS
    /\ Len(actions) = 2
    /\ actions[1].type = actList /\ actions[1].executed
    /\ IsErase(actions[2]) /\ Writes(actions[2])
    /\ hist.opens >= 2
    /\ bootloaderHandle.id = hist.opens

\* Every entry of the list has the serial number.
FilteredBy(list, serial) ==
    \A k \in 1..ploaderListSize(list) : SerialNumberOf(list.devs[k]) = serial

\* C21: whenever a list is cached and -d gave a serial number, every entry
\* of the list has that serial number; a filtering that fails caches
\* nothing and leaves no list alive; the library holds a list exactly while
\* one is cached, until main() frees it; and the serial number is set by
\* parseArgs only, never again once a discovery has taken place.
C21_CachedListIsFiltered ==
    [][/\ bootloaderList'.cached /\ desiredSerialNumber' # NULL =>
              FilteredBy(bootloaderList', desiredSerialNumber')
       /\ desiredSerialNumber # NULL /\ ~bootloaderList.cached =>
              bootloaderListRequire(bootloaderList,
                                    "ploaderListFilterBySerialNumber")
                  = [code |-> ERROR_OPERATION_FAILED, list |-> NoList,
                     discovered |-> TRUE]
       /\ pc' # "done" =>
              liveLists' = IF bootloaderList'.cached THEN 1 ELSE 0
       /\ pc' = "done" => liveLists' = 0
       /\ desiredSerialNumber' # desiredSerialNumber =>
              /\ pc = "parseArgs"
              /\ desiredSerialNumber = NULL
       /\ hist.discoveredIn # {} =>
              desiredSerialNumber' = desiredSerialNumber
      ]_vars

\* With -d S1 and the bootloaders S1 and S2 attached, the cached list holds
\* the bootloader S1 alone.
C21_Witness ==
    /\ desiredSerialNumber = "S1"
    /\ connected = {1, 2}
    /\ bootloaderList.cached
    /\ bootloaderList.devs = <<1>>
    /\ hist.discoveredIn # {}

\* actionsPrepare calls the prepare phase of the entry at idx in this
\* transition, and the phase is one of the given functions.
PrepareCalled(functions) ==
    /\ pc = "actionsPrepare"
    /\ idx <= Len(actions)
    /\ actions[idx].type.prepare \in functions

\* The queue parseArgs built holds read actions only, and -w was not given.
ReadOnlyPipeline ==
    /\ pc # "parseArgs"
    /\ ~waitForBootloaderFlag
    /\ Len(actions) > 0
    /\ \A i \in 1..Len(actions) :
           actions[i].type.prepare = "prepareHexFileOutput"

\* The messages by which bootloaderHandleRequire reports that no bootloader,
\* or more than one, qualifies.
AbsentOrAmbiguous ==
    {NotFoundMessage("error"),
     Message("error", "multiple qualifying bootloaders", NULL)}

\* C22: the prepare phase of a read action opens (and truncates) its
\* destination file and leaves the session alone: no discovery, no handle
\* opened, no identity displayed, and it fails only with
\* ERROR_OPERATION_FAILED, its file not open.  The prepare phase of a write
\* or erase action succeeds only with the handle open, and discovers in the
\* prepare pass when there is neither a handle nor a list.  So in a run of
\* read actions only and without -w, discovery and opening happen in the
\* execute pass only, and when no bootloader or more than one is found every
\* action has been prepared and every destination file is open and empty.
C22_ReadPrepareOpensFileOnly ==
    [][/\ PrepareCalled({"prepareHexFileOutput"}) =>
              /\ UNCHANGED <<session, deviceMem>>
              /\ hist'.discoveredIn = hist.discoveredIn
              /\ hist'.opens = hist.opens
              /\ hist'.shown = hist.shown
              /\ IF actions'[idx].prepared
                 THEN /\ actions'[idx].file
                      /\ files' = [files EXCEPT ![actions[idx].fileName] = {}]
                 ELSE /\ ~actions'[idx].file
                      /\ files' = files
                      /\ Returns(ERROR_OPERATION_FAILED)
       /\ PrepareCalled({"readHexFile", "clearHexFileInput"}) =>
              /\ actions'[idx].prepared =>
                     /\ bootloaderHandle' # NoHandle
                     /\ bootloaderHandle' \in openHandles'
              /\ bootloaderHandle = NoHandle /\ ~bootloaderList.cached =>
                     "actionsPrepare" \in hist'.discoveredIn
              /\ ~actions'[idx].file
       /\ ReadOnlyPipeline =>
              /\ hist'.discoveredIn \subseteq {"actionsExecute"}
              /\ hist'.opens # hist.opens => pc = "actionsExecute"
              /\ (hist'.msgs \ hist.msgs) \cap AbsentOrAmbiguous # {} =>
                     /\ pc = "actionsExecute"
                     /\ \A i \in 1..Len(actions) :
                            /\ actions[i].prepared
                            /\ actions[i].file
                            /\ files[actions[i].fileName] = {}
      ]_vars

\* A run of one read action with no bootloader attached: the destination
\* file was opened and truncated in the prepare pass, and the absence was
\* found by the discovery of the execute pass.
C22_Witness ==
    /\ ReadOnlyPipeline
    /\ connected = {}
    /\ hist.discoveredIn = {"actionsExecute"}
    /\ NotFoundMessage("error") \in hist.msgs
    /\ actions[1].prepared /\ actions[1].file
    /\ actions[1].fileName = "f.hex"
    /\ files["f.hex"] = {}
    /\ exitCode = ERROR_BOOTLOADER_NOT_FOUND

====
